---- MODULE Spec2Model ----
(***************************************************************************)
(* Verification model of the transcript annotation tool:                   *)
(*   - the WebVTT line scanner parseVTTFile and the time codec             *)
(*     (src/utils/vttParser.ts, src/types/transcript.ts),                  *)
(*   - the useVTTParser hook with its operation counter,                   *)
(*   - the annotation session, its completion summary, the export         *)
(*     control and the export pipeline.                                    *)
(* Text is modelled as sequences of one-character strings so that split,   *)
(* trim, parseInt and the regular expressions are computed as the code     *)
(* computes them.                                                          *)
(***************************************************************************)
EXTENDS Integers, Sequences, FiniteSets, TLC

VARIABLES
    \* one call of parseVTTFile
    fileContent,      \* the text passed to parseVTTFile
    validationRules,  \* the rules passed to parseVTTFile
    lines,            \* the trimmed lines of fileContent
    currentLine,      \* 0-based index of the line the scan loop looks at
    cueIndex,         \* number of cues emitted so far
    cues,             \* the accumulated cues, in file order
    errors,           \* the accumulated hard errors
    warnings,         \* the accumulated warnings
    parsePc,          \* "entry", "scan" or "done"
    parseResult,      \* the ParseResult returned, once parsePc = "done"
    \* useVTTParser
    state,            \* VTTParserState
    currentParseRef,  \* currentParseRef.current
    ops,              \* ops[n]: the parseFile call that took counter value n
    \* useAnnotationSession
    currentSession,   \* the AnnotationSession, or NoSession
    currentCueIndex,  \* the index of the cue shown
    error,            \* the hook's error: its message, or "null"
    rendered,         \* the session and index of the last render, which the
                      \* callbacks of that render closed over
    \* the ExportControls instances
    pending,          \* pending[c]: the pending flag of instance c
    errorMessage,     \* errorMessage[c]
    successMessage,   \* successMessage[c]
    exportRun,        \* exportRun[c]: the onExport call of instance c in flight
    \* exportAnnotations
    archive,          \* one call of exportAnnotations: its session and what it built
    \* the time codec
    codec,            \* one timestamp taken through formatVTTTime and parseTimeToMs
    \* the readers of a session
    reading,          \* one session passed to summarizeSessionCompletion and exportAnnotations
    \* the serializer and the parser together
    roundTrip         \* the cues of a first parse while their exportToVTT text is parsed

parseVars == <<fileContent, validationRules, lines, currentLine, cueIndex, cues,
               errors, warnings, parsePc, parseResult>>

hookVars == <<state, currentParseRef, ops>>

exportVars == <<pending, errorMessage, successMessage, exportRun, archive, codec, reading,
               roundTrip>>

navVars == <<currentCueIndex, error, rendered>>

vars == <<parseVars, hookVars, currentSession, navVars, exportVars>>

(***************************************************************************)
(* Characters and JavaScript string primitives                             *)
(***************************************************************************)
Digits == {"0", "1", "2", "3", "4", "5", "6", "7", "8", "9"}

DigitVal == [c \in Digits |->
    CASE c = "0" -> 0 [] c = "1" -> 1 [] c = "2" -> 2 [] c = "3" -> 3
      [] c = "4" -> 4 [] c = "5" -> 5 [] c = "6" -> 6 [] c = "7" -> 7
      [] c = "8" -> 8 [] c = "9" -> 9]

\* \s of the regular expressions and the characters String.prototype.trim removes
WS == {" ", "\t", "\r", "\n"}

\* the value JavaScript calls NaN; every arithmetic operator below propagates
\* it and every comparison with it is false
NaN == -999999999

IsNaN(x) == x = NaN

NumAdd(a, b) == IF IsNaN(a) \/ IsNaN(b) THEN NaN ELSE a + b

NumMul(a, b) == IF IsNaN(a) \/ IsNaN(b) THEN NaN ELSE a * b

NumGe(a, b) == ~IsNaN(a) /\ ~IsNaN(b) /\ a >= b

NumGt(a, b) == ~IsNaN(a) /\ ~IsNaN(b) /\ a > b

NumLe(a, b) == ~IsNaN(a) /\ ~IsNaN(b) /\ a <= b

NumLt(a, b) == ~IsNaN(a) /\ ~IsNaN(b) /\ a < b

\* s.slice(from) with a 1-based first index
Drop(s, n) == IF n >= Len(s) THEN <<>> ELSE SubSeq(s, n + 1, Len(s))

Take(s, n) == IF n >= Len(s) THEN s ELSE SubSeq(s, 1, n)

StartsWith(s, p) == Len(p) <= Len(s) /\ SubSeq(s, 1, Len(p)) = p

EndsWith(s, p) == Len(p) <= Len(s) /\ SubSeq(s, Len(s) - Len(p) + 1, Len(s)) = p

\* s.indexOf(p), 1-based; 0 when p does not occur
IndexOf(s, p) ==
    LET hits == {i \in 1..(Len(s) - Len(p) + 1) : SubSeq(s, i, i + Len(p) - 1) = p}
    IN  IF hits = {} THEN 0 ELSE CHOOSE i \in hits : \A j \in hits : i <= j

Includes(s, p) == IndexOf(s, p) # 0

\* s.split(sep) for a non-empty string separator
RECURSIVE SplitOn(_, _)
SplitOn(s, sep) ==
    LET i == IndexOf(s, sep)
    IN  IF i = 0 THEN <<s>>
        ELSE <<SubSeq(s, 1, i - 1)>> \o SplitOn(Drop(s, i + Len(sep) - 1), sep)

\* s.split(/\r?\n/)
RECURSIVE SplitLines(_)
SplitLines(s) ==
    LET i == IndexOf(s, <<"\n">>)
        cut == IF i > 1 /\ s[i - 1] = "\r" THEN i - 2 ELSE i - 1
    IN  IF i = 0 THEN <<s>>
        ELSE <<SubSeq(s, 1, cut)>> \o SplitLines(Drop(s, i))

RECURSIVE TrimStart(_)
TrimStart(s) == IF s # <<>> /\ s[1] \in WS THEN TrimStart(Tail(s)) ELSE s

RECURSIVE TrimEnd(_)
TrimEnd(s) ==
    IF s # <<>> /\ s[Len(s)] \in WS THEN TrimEnd(SubSeq(s, 1, Len(s) - 1)) ELSE s

Trim(s) == TrimEnd(TrimStart(s))

\* parts.join(sep)
RECURSIVE Join(_, _)
Join(parts, sep) ==
    IF parts = <<>> THEN <<>>
    ELSE IF Len(parts) = 1 THEN parts[1]
    ELSE parts[1] \o sep \o Join(Tail(parts), sep)

\* value of a run of decimal digits
RECURSIVE DigitsValue(_)
DigitsValue(s) ==
    IF s = <<>> THEN 0 ELSE DigitsValue(SubSeq(s, 1, Len(s) - 1)) * 10 + DigitVal[s[Len(s)]]

\* the longest prefix of s made of digits
RECURSIVE DigitPrefix(_)
DigitPrefix(s) ==
    IF s # <<>> /\ s[1] \in Digits THEN <<s[1]>> \o DigitPrefix(Tail(s)) ELSE <<>>

\* parseInt(s, 10): leading white space skipped, optional sign, then the
\* longest run of digits; NaN when there is no digit
ParseInt(s) ==
    LET t == TrimStart(s)
        neg == t # <<>> /\ t[1] = "-"
        body == IF t # <<>> /\ t[1] \in {"-", "+"} THEN Tail(t) ELSE t
        ds == DigitPrefix(body)
    IN  IF ds = <<>> THEN NaN
        ELSE IF neg THEN 0 - DigitsValue(ds) ELSE DigitsValue(ds)

\* s.padEnd(3, '0').slice(0, 3)
PadEnd3Slice(s) ==
    LET padded == IF Len(s) >= 3 THEN s
                  ELSE s \o [i \in 1..(3 - Len(s)) |-> "0"]
    IN  SubSeq(padded, 1, 3)

(***************************************************************************)
(* Time codec                                                              *)
(***************************************************************************)
parseTimeToMs(timeStr) ==
    LET parts == SplitOn(timeStr, <<":">>)
        hours == IF Len(parts) = 3 THEN ParseInt(parts[1]) ELSE 0
        minutes == IF Len(parts) = 3 THEN ParseInt(parts[2])
                   ELSE IF Len(parts) = 2 THEN ParseInt(parts[1]) ELSE 0
        secondsAndMs == IF Len(parts) = 3 THEN parts[3]
                        ELSE IF Len(parts) = 2 THEN parts[2] ELSE parts[1]
        sm == SplitOn(secondsAndMs, <<".">>)
        secondsStr == sm[1]
        msStr == IF Len(sm) >= 2 THEN sm[2] ELSE <<"0", "0", "0">>
        seconds == ParseInt(secondsStr)
        milliseconds == ParseInt(PadEnd3Slice(msStr))
    IN  NumAdd(NumMul(NumAdd(NumMul(NumAdd(NumMul(hours, 60), minutes), 60), seconds), 1000),
               milliseconds)

(***************************************************************************)
(* Regular expressions of the parser, as position sets: each operator      *)
(* maps the set P of positions a match may have reached to the positions   *)
(* reachable after the next piece of the pattern                           *)
(***************************************************************************)
\* \d{lo,hi}
ReDigits(s, P, lo, hi) ==
    {p + k : p \in P, k \in lo..hi} \cap
    {q \in 1..(Len(s) + 1) : \E p \in P : p <= q /\ q - p \in lo..hi
                                /\ \A i \in p..(q - 1) : s[i] \in Digits}

\* a literal
ReLit(s, P, lit) ==
    {p + Len(lit) : p \in {q \in P : q + Len(lit) - 1 <= Len(s)
                                     /\ SubSeq(s, q, q + Len(lit) - 1) = lit}}

\* \s*
ReWsStar(s, P) ==
    {q \in 1..(Len(s) + 1) : \E p \in P : p <= q /\ \A i \in p..(q - 1) : s[i] \in WS}

\* (\d{1,2}:)?(\d{1,2}):(\d{1,2})\.(\d{1,3})
ReTimestamp(s, P) ==
    LET afterHour == P \cup ReLit(s, ReDigits(s, P, 1, 2), <<":">>)
        afterMin == ReLit(s, ReDigits(s, afterHour, 1, 2), <<":">>)
        afterSec == ReLit(s, ReDigits(s, afterMin, 1, 2), <<".">>)
    IN  ReDigits(s, afterSec, 1, 3)

\* /^TS\s*-->\s*TS(.*)$/ ; '.' does not match a line terminator
timingMatch(line) ==
    LET afterStart == ReTimestamp(line, {1})
        afterArrow == ReLit(line, ReWsStar(line, afterStart), <<"-", "-", ">">>)
        afterEnd == ReTimestamp(line, ReWsStar(line, afterArrow))
    IN  \E p \in afterEnd : \A i \in p..Len(line) : line[i] \notin {"\r", "\n"}

ARROW == <<" ", "-", "-", ">", " ">>

(***************************************************************************)
(* Speaker extraction and text normalisation                               *)
(***************************************************************************)
SpeakerMaxLen == 60

\* [\w .,'"\-()]
WordChars ==
    Digits \cup {"a", "b", "c", "d", "e", "f", "g", "h", "i", "j", "k", "l", "m",
                 "n", "o", "p", "q", "r", "s", "t", "u", "v", "w", "x", "y", "z",
                 "A", "B", "C", "D", "E", "F", "G", "H", "I", "J", "K", "L", "M",
                 "N", "O", "P", "Q", "R", "S", "T", "U", "V", "W", "X", "Y", "Z", "_"}

SpeakerClass == WordChars \cup {" ", ".", ",", "'", "\"", "-", "(", ")"}

NoSpeaker(textLines) == [hasSpeaker |-> FALSE, speaker |-> <<>>, textLines |-> textLines]

\* the result of a matcher whose name and remainder have been cut out
WithSpeaker(name, remainder, textLines) ==
    [hasSpeaker |-> TRUE, speaker |-> name,
     textLines |-> IF Len(remainder) > 0 THEN <<remainder>> \o Tail(textLines)
                   ELSE Tail(textLines)]

\* /^<v\s+([^>]+)>(.*)$/i : position of the closing '>' or 0
VoiceTagClose(firstLine) ==
    LET gt == IndexOf(firstLine, <<">">>)
    IN  IF Len(firstLine) >= 5 /\ firstLine[1] = "<" /\ firstLine[2] \in {"v", "V"}
           /\ firstLine[3] \in WS /\ gt >= 5
        THEN gt ELSE 0

\* /^([\w .,'"\-()]+):\s*(.*)$/ : position of the ':' or 0
ColonPos(firstLine) ==
    LET c == IndexOf(firstLine, <<":">>)
    IN  IF c >= 2 /\ \A i \in 1..(c - 1) : firstLine[i] \in SpeakerClass THEN c ELSE 0

\* /^\[([^\]]+)\]\s*(.*)$/ : position of the ']' or 0
BracketClose(firstLine) ==
    LET b == IndexOf(firstLine, <<"]">>)
    IN  IF Len(firstLine) >= 3 /\ firstLine[1] = "[" /\ b >= 3 THEN b ELSE 0

extractSpeakerFromTextLines(textLines) ==
    IF textLines = <<>> THEN NoSpeaker(textLines)
    ELSE
      LET firstLine == textLines[1]
          v == VoiceTagClose(firstLine)
          c == ColonPos(firstLine)
          b == BracketClose(firstLine)
          colonName == Trim(SubSeq(firstLine, 1, c - 1))
          bracketName == Trim(SubSeq(firstLine, 2, b - 1))
      IN  IF v # 0
          THEN WithSpeaker(Trim(SubSeq(firstLine, 4, v - 1)), Trim(Drop(firstLine, v)), textLines)
          ELSE IF c # 0 /\ Len(colonName) > 0 /\ Len(colonName) <= SpeakerMaxLen
          THEN WithSpeaker(colonName, Trim(Drop(firstLine, c)), textLines)
          ELSE IF b # 0 /\ Len(bracketName) > 0 /\ Len(bracketName) <= SpeakerMaxLen
          THEN WithSpeaker(bracketName, Trim(Drop(firstLine, b)), textLines)
          ELSE NoSpeaker(textLines)

\* s.replace(/<[^>]*>/g, '') for open = '<', close = '>'
RECURSIVE StripDelimited(_, _, _)
StripDelimited(s, open, close) ==
    IF \A i \in 1..Len(s) : s[i] # open THEN s
    ELSE IF s[1] = open /\ Includes(Tail(s), <<close>>)
    THEN StripDelimited(Drop(s, 1 + IndexOf(Tail(s), <<close>>)), open, close)
    ELSE <<s[1]>> \o StripDelimited(Tail(s), open, close)

\* s.replace(/\s+/g, ' ')
RECURSIVE CollapseWs(_)
CollapseWs(s) ==
    IF \A i \in 1..Len(s) : s[i] \notin WS THEN s
    ELSE IF s[1] \in WS THEN <<" ">> \o CollapseWs(TrimStart(s))
    ELSE <<s[1]>> \o CollapseWs(Tail(s))

cleanVTTText(text) ==
    Trim(CollapseWs(StripDelimited(StripDelimited(text, "<", ">"), "{", "}")))

(***************************************************************************)
(* Input texts: the lines the files of the model are built from            *)
(***************************************************************************)
\* string literals of annotationExport.ts, useAnnotationSession.ts and
\* vttParser.ts
Literal ==
    [annotationsJson |-> <<"a", "n", "n", "o", "t", "a", "t", "i", "o", "n", "s",
                           ".", "j", "s", "o", "n">>,
     originalVtt |-> <<"o", "r", "i", "g", "i", "n", "a", "l", ".", "v", "t", "t">>,
     vtt |-> <<".", "v", "t", "t">>,
     txt |-> <<".", "t", "x", "t">>,
     session |-> <<"s", "e", "s", "s", "i", "o", "n">>,
     importanceLevel |-> <<"N", "O", "T", "E", ":", " ", "I", "m", "p", "o", "r", "t",
                           "a", "n", "c", "e", " ", "L", "e", "v", "e", "l", " ">>,
     unknownVtt |-> <<"u", "n", "k", "n", "o", "w", "n", ".", "v", "t", "t">>,
     demoVtt |-> <<"d", "e", "m", "o", ".", "v", "t", "t">>,
     nan |-> <<"N", "a", "N">>,
     note |-> <<"N", "O", "T", "E">>]

WEBVTT == <<"W", "E", "B", "V", "T", "T">>

\* timestamps as written in a file
Stamp ==
    [half |-> <<"0", "0", ":", "0", "0", ":", "0", "0", ".", "5", "0", "0">>,
     one |-> <<"0", "0", ":", "0", "0", ":", "0", "1", ".", "0", "0", "0">>,
     two |-> <<"0", "0", ":", "0", "0", ":", "0", "2", ".", "0", "0", "0">>,
     three |-> <<"0", "0", ":", "0", "0", ":", "0", "3", ".", "0", "0", "0">>,
     threeHalf |-> <<"0", "0", ":", "0", "0", ":", "0", "3", ".", "5", "0", "0">>,
     four |-> <<"0", "0", ":", "0", "0", ":", "0", "4", ".", "0", "0", "0">>,
     five |-> <<"0", "0", ":", "0", "0", ":", "0", "5", ".", "0", "0", "0">>,
     shortStart |-> <<"0", "0", ":", "0", "1", ".", "5">>,
     shortEnd |-> <<"0", "0", ":", "0", "2", ".", "2", "5">>,
     badSegment |-> <<"0", "0", ":", "0", "0", ":", "0", "x", ".", "0", "0", "0">>,
     noFraction |-> <<"0", "0", ":", "0", "0", ":", "0", "2">>]

\* the other lines of a block: cue text, a cue number, cue settings
CueText ==
    [hi |-> <<"H", "i">>,
     colon |-> <<"B", "o", "b", ":", " ", "y", "o">>,
     voice |-> <<"<", "v", " ", "A", "l", ">", "o", "k">>,
     padded |-> <<" ", " ", "s", "o", " ", " ">>,
     bracket |-> <<"[", "A", "l", "]", " ", "o", "k">>,
     markupOnly |-> <<"<", "b", ">", "<", "/", "b", ">", "{", "x", "}">>,
     markup |-> <<"<", "b", ">", "H", "i", "<", "/", "b", ">">>,
     note |-> <<"N", "O", "T", "E", " ", "c">>,
     arrowJunk |-> <<"a", " ", "-", "-", ">", " ", "b">>,
     cueNumber |-> <<"1">>,
     settings |-> <<" ", "a", ":", "b">>,
     importanceNote |-> <<"N", "O", "T", "E", ":", " ", "I", "m", "p", "o", "r", "t", "a",
                          "n", "c", "e", " ", "L", "e", "v", "e", "l", " ", "2">>]

\* the separator written without blanks, with two blanks after it, with tabs
Arrow ==
    [tight |-> <<"-", "-", ">">>,
     wide |-> <<" ", "-", "-", ">", " ", " ">>,
     tab |-> <<"\t", "-", "-", ">", "\t">>]

\* one block of lines per case of the scan loop
Blocks ==
    {<<CueText.cueNumber, Stamp.one \o ARROW \o Stamp.two, CueText.hi, <<>>>>,
     <<Stamp.three \o ARROW \o Stamp.four, CueText.colon, <<>>>>,
     <<Stamp.half \o ARROW \o Stamp.threeHalf, CueText.voice, CueText.padded, <<>>>>,
     <<Stamp.one \o ARROW \o Stamp.five, CueText.bracket>>,
     <<Stamp.five \o ARROW \o Stamp.two, CueText.hi, <<>>>>,
     <<Stamp.one \o Arrow.tight \o Stamp.two, CueText.hi, <<>>>>,
     <<Stamp.one \o Arrow.wide \o Stamp.two, CueText.hi, <<>>>>,
     <<Stamp.one \o Arrow.tab \o Stamp.two, CueText.hi>>,
     <<Stamp.shortStart \o ARROW \o Stamp.shortEnd \o CueText.settings, CueText.markup, <<>>>>,
     <<Stamp.three \o ARROW \o Stamp.four, CueText.markupOnly, <<>>>>,
     <<CueText.note, CueText.arrowJunk, <<>>>>}

DefaultMinCues == 1

DefaultMaxCues == 10000

DefaultMaxCueLength == 5000

MaxBlocks == 2

RECURSIVE Flatten(_)
Flatten(ss) == IF ss = <<>> THEN <<>> ELSE ss[1] \o Flatten(Tail(ss))

\* files with a cue text one character longer than the default
\* maxCueLength: alone, and after an ordinary cue
LongFiles ==
    LET LongText == [i \in 1..(DefaultMaxCueLength + 1) |-> "a"]
    IN
    {Join(<<WEBVTT, <<>>, Stamp.three \o ARROW \o Stamp.four, LongText>>, <<"\n">>),
     Join(<<WEBVTT, <<>>, Stamp.one \o ARROW \o Stamp.two, CueText.hi, <<>>,
            Stamp.three \o ARROW \o Stamp.four, LongText>>, <<"\n">>)}

\* the file contents parsed: every header (a header, a blank line before
\* the header, no header at all) followed by up to MaxBlocks
\* blocks, the empty file, a file of white space only, the long files, and
\* files with a timing line that is not a timestamp pair or with an
\* importance comment as exportToVTT writes it or with a cue text of two
\* lines, alone and after a cue
FileContents ==
    LET Headers == {<<WEBVTT, <<>>>>, <<<<>>, WEBVTT, <<>>>>, <<>>}
        special ==
            {<<Stamp.badSegment \o ARROW \o Stamp.two, CueText.hi, <<>>>>,
             <<Stamp.one \o ARROW \o Stamp.noFraction, CueText.hi, <<>>>>,
             <<Stamp.one \o ARROW \o Stamp.two, CueText.importanceNote, CueText.hi, <<>>>>,
             <<Stamp.one \o ARROW \o Stamp.two, CueText.hi, CueText.colon, <<>>>>}
        first == <<Stamp.three \o ARROW \o Stamp.four, CueText.colon, <<>>>>
    IN  {Join(h \o Flatten(bs), <<"\n">>) : h \in Headers, bs \in UNION {[1..n -> Blocks] : n \in 0..MaxBlocks}}
        \cup {<<>>, <<" ", "\n", " ">>}
        \cup LongFiles
        \cup {Join(<<WEBVTT, <<>>>> \o b, <<"\n">>) : b \in special}
        \cup {Join(<<WEBVTT, <<>>>> \o first \o b, <<"\n">>) : b \in special}

\* VTT_VALIDATION_CONFIG and two other rule bundles
VTT_VALIDATION_CONFIG ==
    [requiredHeader |-> WEBVTT, minCues |-> DefaultMinCues, maxCues |-> DefaultMaxCues,
     maxCueLength |-> DefaultMaxCueLength]

RuleSets ==
    {VTT_VALIDATION_CONFIG,
     [VTT_VALIDATION_CONFIG EXCEPT !.minCues = 2],
     [VTT_VALIDATION_CONFIG EXCEPT !.maxCues = 1, !.maxCueLength = 1]}

(***************************************************************************)
(* parseVTTFile: state of one call                                         *)
(***************************************************************************)
\* the errors array of a run that never leaves the scan loop grows without
\* bound; the model stops appending at this length
MaxErrors == 3

PushError(errs, e) == IF Len(errs) < MaxErrors THEN Append(errs, e) ELSE errs

NoResult == [success |-> FALSE, hasCues |-> FALSE, cues |-> <<>>,
             hasErrors |-> FALSE, errors |-> <<>>,
             hasWarnings |-> FALSE, warnings |-> <<>>]

\* lines[i] of the code, i 0-based
LineAt(i) == lines[i + 1]

generateCueId(index, startMs) == <<index + 1, startMs>>

validateTranscriptCue(cue) ==
    (IF NumLt(cue.startMs, 0) THEN <<"Start time must be a non-negative number">> ELSE <<>>)
    \o (IF NumLe(cue.endMs, 0) THEN <<"End time must be a positive number">> ELSE <<>>)
    \o (IF NumLe(cue.endMs, cue.startMs)
        THEN <<"End time must be greater than start time">> ELSE <<>>)
    \o (IF Len(Trim(cue.text)) = 0 THEN <<"Cue text cannot be empty">> ELSE <<>>)
    \o (IF Len(cue.text) > DefaultMaxCueLength
        THEN <<"Cue text exceeds maximum length">> ELSE <<>>)

\* the text lines collected after the timing line at 0-based index t: up to
\* the first empty line, the first line containing ' --> ' or the end
RECURSIVE CollectTextLines(_)
CollectTextLines(i) ==
    IF i < Len(lines) /\ LineAt(i) # <<>> /\ ~Includes(LineAt(i), ARROW)
    THEN <<LineAt(i)>> \o CollectTextLines(i + 1)
    ELSE <<>>

\* checkOverlappingCues: one warning per adjacent pair of the list as given
checkOverlappingCues(cs) ==
    LET F[i \in 0..Len(cs)] ==
            IF i = 0 THEN <<>>
            ELSE IF i < Len(cs) /\ NumGt(cs[i].endMs, cs[i + 1].startMs)
                 THEN Append(F[i - 1], [kind |-> "overlap", a |-> cs[i].id, b |-> cs[i + 1].id])
                 ELSE F[i - 1]
    IN  F[Len(cs)]

\* insert x into a list sorted by startMs, before the trailing elements that
\* compare greater (a.startMs - b.startMs > 0) and after all the others
SortInsert(sorted, x) ==
    LET after == {k \in 1..Len(sorted) : \A j \in k..Len(sorted) :
                                            NumGt(sorted[j].startMs, x.startMs)}
        n == Len(sorted) - Cardinality(after)
    IN  SubSeq(sorted, 1, n) \o <<x>> \o SubSeq(sorted, n + 1, Len(sorted))

KeepFileOrder(cs) == cs

\* cues.sort((a, b) => a.startMs - b.startMs), a stable sort
SortCues(cs) ==
    LET F[i \in 0..Len(cs)] == IF i = 0 THEN <<>> ELSE SortInsert(F[i - 1], cs[i])
    IN  F[Len(cs)]

(***************************************************************************)
(* parseVTTFile: the steps of one call                                     *)
(***************************************************************************)
\* lines 25-48: the empty-content return, the split into trimmed lines and
\* the header check
ParseEnter ==
    /\ parsePc = "entry"
    /\ IF Len(Trim(fileContent)) = 0
       THEN /\ parsePc' = "done"
            /\ parseResult' = [NoResult EXCEPT
                   !.hasErrors = TRUE,
                   !.errors = <<[type |-> "CORRUPTED_FILE", lineNumber |-> 0]>>]
            /\ UNCHANGED <<lines, currentLine, errors>>
       ELSE LET ls == SplitLines(fileContent)
                trimmed == [i \in 1..Len(ls) |-> Trim(ls[i])]
            IN  /\ lines' = trimmed
                /\ errors' = IF trimmed[1] = <<>>
                                \/ ~StartsWith(trimmed[1], validationRules.requiredHeader)
                             THEN <<[type |-> "INVALID_FORMAT", lineNumber |-> 1]>>
                             ELSE <<>>
                /\ currentLine' = 1
                /\ parsePc' = "scan"
                /\ UNCHANGED parseResult
    /\ UNCHANGED <<fileContent, validationRules, cueIndex, cues, warnings>>
    /\ UNCHANGED <<hookVars, currentSession, navVars, exportVars>>

InScanLoop == parsePc = "scan" /\ currentLine < Len(lines)

IsSkippedLine(line) == line = <<>> \/ StartsWith(line, Literal.note)

\* lines 53-56: empty lines and comments
ScanSkipLine ==
    /\ InScanLoop
    /\ IsSkippedLine(LineAt(currentLine))
    /\ currentLine' = currentLine + 1
    /\ UNCHANGED <<fileContent, validationRules, lines, cueIndex, cues, errors,
                   warnings, parsePc, parseResult>>
    /\ UNCHANGED <<hookVars, currentSession, navVars, exportVars>>

\* lines 143-146: a line that is not a timing line
ScanOtherLine ==
    /\ InScanLoop
    /\ ~IsSkippedLine(LineAt(currentLine))
    /\ ~timingMatch(LineAt(currentLine))
    /\ currentLine' = currentLine + 1
    /\ UNCHANGED <<fileContent, validationRules, lines, cueIndex, cues, errors,
                   warnings, parsePc, parseResult>>
    /\ UNCHANGED <<hookVars, currentSession, navVars, exportVars>>

IsTimingLine == InScanLoop /\ ~IsSkippedLine(LineAt(currentLine))
                /\ timingMatch(LineAt(currentLine))

\* timingMatch[0].split(' --> ')
ArrowParts == SplitOn(LineAt(currentLine), ARROW)

\* line 66 reads .split of undefined when the line holds no ' --> '
DecodeThrows == Len(ArrowParts) < 2

startTimeText == ArrowParts[1]

endTimeText == SplitOn(ArrowParts[2], <<" ">>)[1]

\* lines 135-142: the catch of the timing block; currentLine is not changed
ScanTimingThrows ==
    /\ IsTimingLine
    /\ DecodeThrows
    /\ errors' = PushError(errors, [type |-> "INVALID_TIMESTAMP",
                                    lineNumber |-> currentLine + 1])
    /\ UNCHANGED <<fileContent, validationRules, lines, currentLine, cueIndex, cues,
                   warnings, parsePc, parseResult>>
    /\ UNCHANGED <<hookVars, currentSession, navVars, exportVars>>

\* lines 72-81: start >= end
ScanTimingRejected ==
    /\ IsTimingLine
    /\ ~DecodeThrows
    /\ NumGe(parseTimeToMs(startTimeText), parseTimeToMs(endTimeText))
    /\ errors' = PushError(errors, [type |-> "INVALID_TIMESTAMP",
                                    lineNumber |-> currentLine + 1])
    /\ currentLine' = currentLine + 1
    /\ UNCHANGED <<fileContent, validationRules, lines, cueIndex, cues,
                   warnings, parsePc, parseResult>>
    /\ UNCHANGED <<hookVars, currentSession, navVars, exportVars>>

\* lines 83-133: text collection, speaker, clean-up, length check, cue
\* assembly and validation
ScanTimingCue ==
    /\ IsTimingLine
    /\ ~DecodeThrows
    /\ LET startMs == parseTimeToMs(startTimeText)
           endMs == parseTimeToMs(endTimeText)
           textLines == CollectTextLines(currentLine + 1)
           after == currentLine + 1 + Len(textLines)
           extracted == extractSpeakerFromTextLines(textLines)
           cleanText == cleanVTTText(Join(extracted.textLines, <<" ">>))
           cue == [id |-> generateCueId(cueIndex, startMs), startMs |-> startMs,
                   endMs |-> endMs, text |-> cleanText,
                   hasSpeaker |-> extracted.hasSpeaker, speaker |-> extracted.speaker]
           tooLong == IF Len(cleanText) > validationRules.maxCueLength
                      THEN <<[kind |-> "length", line |-> after - Len(textLines) + 1]>>
                      ELSE <<>>
       IN  /\ ~NumGe(startMs, endMs)
           /\ currentLine' = after
           /\ IF Len(cleanText) = 0
              THEN /\ warnings' = Append(warnings,
                                    [kind |-> "empty", line |-> after - Len(textLines) + 1])
                   /\ UNCHANGED <<cues, cueIndex, errors>>
              ELSE /\ warnings' = warnings \o tooLong
                   /\ IF validateTranscriptCue(cue) # <<>>
                      THEN /\ errors' = PushError(errors,
                                  [type |-> "INVALID_FORMAT",
                                   lineNumber |-> after - Len(textLines)])
                           /\ UNCHANGED <<cues, cueIndex>>
                      ELSE /\ cues' = Append(cues, cue)
                           /\ cueIndex' = cueIndex + 1
                           /\ UNCHANGED errors
    /\ UNCHANGED <<fileContent, validationRules, lines, parsePc, parseResult>>
    /\ UNCHANGED <<hookVars, currentSession, navVars, exportVars>>

SuccessOnlyWithoutWarnings(errs, warns) == Len(errs) = 0 /\ Len(warns) = 0

\* line 178: success: errors.length === 0
IsSuccess(errs, warns) == Len(errs) = 0

\* lines 149-182: final validation, overlap warnings, sort and the result
ParseFinish ==
    /\ parsePc = "scan"
    /\ currentLine >= Len(lines)
    /\ LET e1 == IF Len(cues) = 0
                 THEN PushError(errors, [type |-> "NO_CUES", lineNumber |-> 0]) ELSE errors
           e2 == IF Len(cues) < validationRules.minCues
                 THEN PushError(e1, [type |-> "NO_CUES", lineNumber |-> 0]) ELSE e1
           e3 == IF Len(cues) > validationRules.maxCues
                 THEN PushError(e2, [type |-> "TOO_LARGE", lineNumber |-> 0]) ELSE e2
           w == warnings \o checkOverlappingCues(cues)
           sorted == SortCues(cues)
       IN  /\ errors' = e3
           /\ warnings' = w
           /\ cues' = sorted
           /\ parseResult' =
                 [success |-> IsSuccess(e3, w),
                  hasCues |-> Len(e3) = 0,
                  cues |-> IF Len(e3) = 0 THEN sorted ELSE <<>>,
                  hasErrors |-> Len(e3) > 0,
                  errors |-> e3,
                  hasWarnings |-> Len(w) > 0,
                  warnings |-> w]
    /\ parsePc' = "done"
    /\ UNCHANGED <<fileContent, validationRules, lines, currentLine, cueIndex>>
    /\ UNCHANGED <<hookVars, currentSession, navVars, exportVars>>

InitParse ==
    /\ fileContent \in FileContents
    /\ validationRules \in RuleSets
    /\ lines = <<>>
    /\ currentLine = 0
    /\ cueIndex = 0
    /\ cues = <<>>
    /\ errors = <<>>
    /\ warnings = <<>>
    /\ parsePc = "entry"
    /\ parseResult = NoResult

NextParse ==
    \/ ParseEnter
    \/ ScanSkipLine
    \/ ScanOtherLine
    \/ ScanTimingThrows
    \/ ScanTimingRejected
    \/ ScanTimingCue
    \/ ParseFinish

(***************************************************************************)
(* useVTTParser: the hook state, the operation counter and the parseFile   *)
(* calls in flight                                                         *)
(***************************************************************************)
\* largest value the operation counter takes in the model
MaxOps == 3

\* the files a user selects: parses to cues; parses to errors; rejected by
\* validateVTTFile; FileReader fails; not a usable File object (the awaited
\* parse rejects)
FileKinds == {"ok", "badParse", "badExt", "unreadable", "malformed"}

InitialParserState ==
    [isLoading |-> FALSE, progress |-> 0, error |-> "null", cues |-> 0,
     parseResult |-> [present |-> FALSE, success |-> FALSE, op |-> 0],
     fileName |-> "null", rawContent |-> 0]

IdleOp == [pc |-> "idle", file |-> "null", suppressed |-> FALSE]

AlwaysCurrent(op) == TRUE

\* currentParseRef.current === currentOperation (lines 75, 87, 125)
IsCurrentOperation(op) == currentParseRef = op

\* the second check, after await originalContentPromise (line 90)
IsStillCurrentOperation(op) == currentParseRef = op

\* onProgress: lines 73-81
onProgress(st, op, progress) ==
    IF IsCurrentOperation(op) THEN [st EXCEPT !.progress = progress] ELSE st

\* lines 50-64 and the synchronous start of parseVTTFileWithProgress
\* (lines 384-395 of vttParser.ts): counter, reset of the state, progress 0,
\* file validation, progress 25
ParseFile(file) ==
    /\ currentParseRef < MaxOps
    /\ LET op == currentParseRef + 1
           fresh == [state EXCEPT !.isLoading = TRUE, !.progress = 0, !.error = "null",
                                  !.cues = 0,
                                  !.parseResult = InitialParserState.parseResult,
                                  !.fileName = file, !.rawContent = 0]
       IN  /\ currentParseRef' = op
           /\ state' = IF file \in {"badExt", "malformed"} THEN fresh
                       ELSE [fresh EXCEPT !.progress = 25]
           /\ ops' = [ops EXCEPT ![op] =
                        [pc |-> IF file \in {"badExt", "malformed"} THEN "resolved"
                                ELSE "reading",
                         file |-> file, suppressed |-> FALSE]]
    /\ UNCHANGED <<parseVars, currentSession, navVars, exportVars>>

\* readFileAsText settles: progress 50 on success (line 400), the
\* CORRUPTED_FILE result on failure (lines 408-415)
ReadSettles(op) ==
    /\ ops[op].pc = "reading"
    /\ IF ops[op].file = "unreadable"
       THEN /\ ops' = [ops EXCEPT ![op].pc = "resolved"]
            /\ UNCHANGED state
       ELSE /\ ops' = [ops EXCEPT ![op].pc = "parsing"]
            /\ state' = onProgress(state, op, 50)
    /\ UNCHANGED currentParseRef
    /\ UNCHANGED <<parseVars, currentSession, navVars, exportVars>>

\* parseVTTFile resolves: progress 100 (line 404)
ParseSettles(op) ==
    /\ ops[op].pc = "parsing"
    /\ ops' = [ops EXCEPT ![op].pc = "resolved"]
    /\ state' = onProgress(state, op, 100)
    /\ UNCHANGED currentParseRef
    /\ UNCHANGED <<parseVars, currentSession, navVars, exportVars>>

\* lines 86-122 and 123-145: the continuation of parseFile after the awaited
\* parse settled
ResultArrives(op) ==
    /\ ops[op].pc = "resolved"
    /\ UNCHANGED currentParseRef
    /\ IF ~IsCurrentOperation(op)
       THEN /\ ops' = [ops EXCEPT ![op].pc = "done", ![op].suppressed = TRUE]
            /\ UNCHANGED state
       ELSE IF ops[op].file = "ok"
       THEN /\ ops' = [ops EXCEPT ![op].pc = "awaitRaw"]
            /\ UNCHANGED state
       ELSE /\ ops' = [ops EXCEPT ![op].pc = "done"]
            /\ state' = [state EXCEPT
                   !.isLoading = FALSE, !.progress = 0,
                   !.error = IF ops[op].file = "badExt" THEN "INVALID_FORMAT"
                             ELSE IF ops[op].file = "badParse" THEN "NO_CUES"
                             ELSE "CORRUPTED_FILE",
                   !.cues = 0,
                   !.parseResult = [present |-> TRUE, success |-> FALSE, op |-> op],
                   !.fileName = ops[op].file, !.rawContent = 0]
    /\ UNCHANGED <<parseVars, currentSession, navVars, exportVars>>

\* lines 89-103: originalContentPromise settles
RawContentArrives(op) ==
    /\ ops[op].pc = "awaitRaw"
    /\ UNCHANGED currentParseRef
    /\ IF ~IsStillCurrentOperation(op)
       THEN /\ ops' = [ops EXCEPT ![op].pc = "done", ![op].suppressed = TRUE]
            /\ UNCHANGED state
       ELSE /\ ops' = [ops EXCEPT ![op].pc = "done"]
            /\ state' = [state EXCEPT
                   !.isLoading = FALSE, !.progress = 100, !.cues = op,
                   !.parseResult = [present |-> TRUE, success |-> TRUE, op |-> op],
                   !.fileName = ops[op].file, !.rawContent = op, !.error = "null"]
    /\ UNCHANGED <<parseVars, currentSession, navVars, exportVars>>

\* lines 148-153
clearError ==
    /\ state.error # "null"
    /\ state' = [state EXCEPT !.error = "null"]
    /\ UNCHANGED <<currentParseRef, ops>>
    /\ UNCHANGED <<parseVars, currentSession, navVars, exportVars>>

\* lines 155-168
reset ==
    /\ currentParseRef < MaxOps
    /\ currentParseRef' = currentParseRef + 1
    /\ state' = InitialParserState
    /\ UNCHANGED ops
    /\ UNCHANGED <<parseVars, currentSession, navVars, exportVars>>

InitHook ==
    /\ state = InitialParserState
    /\ currentParseRef = 0
    /\ ops = [n \in 1..MaxOps |-> IdleOp]

(***************************************************************************)
(* The annotation session (useAnnotationSession) and its completion        *)
(* summary                                                                 *)
(***************************************************************************)
\* largest number of cues of a session of the model
MaxSessionCues == 2

\* SessionState
SessionState == [INITIALIZED |-> "initialized", IN_PROGRESS |-> "in_progress",
                 COMPLETE |-> "complete", EXPORTED |-> "exported"]

\* the filename argument of createSession: absent, blank, a real name
FileNameInputs == {<<>>, <<" ", " ">>, Literal.demoVtt}

\* the importance argument of updateCueImportance: the four levels and a
\* number outside them
ImportanceInputs == 0..4

\* the k-th parsed cue; the parser never sets importance.  shape tells an
\* element of a cues array that is a cue object from one that is an object
\* without the cue's own fields ("bare": id, startMs, endMs, speaker and text
\* are undefined) and from an index the array does not hold ("hole")
ParsedCue(k) == [id |-> k, startMs |-> (k - 1) * 1000, endMs |-> k * 1000,
                 speaker |-> "Speaker", text |-> k,
                 rated |-> FALSE, importance |-> 0, shape |-> "cue"]

\* {...undefined}: the object spread of a missing element
BareCue == [id |-> 0, startMs |-> 0, endMs |-> 0, speaker |-> "undefined", text |-> 0,
            rated |-> FALSE, importance |-> 0, shape |-> "bare"]

\* {...updatedCues[cueIndex]} (lines 169-170 and 210)
SpreadCueAt(updatedCues, index) ==
    IF index < Len(updatedCues) /\ updatedCues[index + 1].shape = "cue"
    THEN updatedCues[index + 1]
    ELSE BareCue

\* updatedCues[cueIndex] = cue: an assignment beyond the end lengthens the
\* array and leaves the indices in between without elements (shape "hole")
AssignAt(updatedCues, index, cue) ==
    LET Hole == [BareCue EXCEPT !.shape = "hole"]
    IN  IF index < Len(updatedCues)
        THEN [updatedCues EXCEPT ![index + 1] = cue]
        ELSE updatedCues \o [k \in 1..(index - Len(updatedCues)) |-> Hole] \o <<cue>>

ParsedCueLists == {[k \in 1..n |-> ParsedCue(k)] : n \in 0..MaxSessionCues}

NoSession == [exists |-> FALSE, originalFileName |-> <<>>, cues |-> <<>>,
              annotations |-> <<>>, status |-> SessionState.INITIALIZED, exportedAt |-> FALSE]

\* a session written to localStorage earlier and loaded on mount (lines
\* 91-107), with a stored annotations list as in the export-ready fixture
SavedSession ==
    [exists |-> TRUE, originalFileName |-> Literal.demoVtt,
     cues |-> <<[ParsedCue(1) EXCEPT !.rated = TRUE, !.importance = 1],
                [ParsedCue(2) EXCEPT !.rated = TRUE, !.importance = 3]>>,
     annotations |-> <<[annotationId |-> <<"A", 1>>, startMs |-> 0, endMs |-> 1000,
                        importance |-> 1]>>,
     status |-> SessionState.COMPLETE, exportedAt |-> FALSE]

\* Math.round(rated / total * 100) for total > 0
RoundPercent(rated, total) == (200 * rated + total) \div (2 * total)

Max(a, b) == IF a >= b THEN a ELSE b

CompleteWithoutCueCheck(totalCues, remainingCueCount) == remainingCueCount = 0

\* line 76
IsComplete(totalCues, remainingCueCount) == totalCues > 0 /\ remainingCueCount = 0

\* lines 28-80; the loop over the cues is the fold F
summarizeSessionCompletion(session) ==
    LET cs == session.cues
        totalCues == Len(cs)
        start == [ratedCues |-> 0, remainingCueIndices |-> <<>>,
                  noise |-> 0, optional |-> 0, important |-> 0, critical |-> 0]
        F[i \in 0..totalCues] ==
            IF i = 0 THEN start
            ELSE IF cs[i].shape = "hole" THEN F[i - 1]
            ELSE IF ~cs[i].rated
            THEN [F[i - 1] EXCEPT !.remainingCueIndices = Append(@, i - 1)]
            ELSE [F[i - 1] EXCEPT
                    !.ratedCues = @ + 1,
                    !.noise = IF cs[i].importance = 0 THEN @ + 1 ELSE @,
                    !.optional = IF cs[i].importance = 1 THEN @ + 1 ELSE @,
                    !.important = IF cs[i].importance = 2 THEN @ + 1 ELSE @,
                    !.critical = IF cs[i].importance = 3 THEN @ + 1 ELSE @]
        acc == F[totalCues]
        remainingCueCount == Max(totalCues - acc.ratedCues, 0)
        missing == IF Len(Trim(session.originalFileName)) = 0
                   THEN <<"originalFileName">> ELSE <<>>
    IN  [totalCues |-> totalCues,
         ratedCues |-> acc.ratedCues,
         remainingCueCount |-> remainingCueCount,
         remainingCueIndices |-> acc.remainingCueIndices,
         progressPercentage |-> IF totalCues > 0 THEN RoundPercent(acc.ratedCues, totalCues)
                                ELSE 0,
         importanceLevels |-> [noise |-> acc.noise, optional |-> acc.optional,
                               important |-> acc.important, critical |-> acc.critical],
         isSessionComplete |-> IsComplete(totalCues, remainingCueCount),
         metadataReady |-> Len(missing) = 0,
         missingMetadataFields |-> missing]

\* the values the hook returns (lines 368-372): those of the summary, or the
\* defaults when there is no session
NoSummary == [totalCues |-> 0, ratedCues |-> 0, remainingCueCount |-> 0,
              remainingCueIndices |-> <<>>, progressPercentage |-> 0,
              importanceLevels |-> [noise |-> 0, optional |-> 0, important |-> 0,
                                    critical |-> 0],
              isSessionComplete |-> FALSE, metadataReady |-> FALSE,
              missingMetadataFields |-> <<>>]

cueMetrics == IF currentSession.exists THEN summarizeSessionCompletion(currentSession)
              ELSE NoSummary

\* cues.findIndex((cue, index) => index > prevIndex && cue.importance ===
\* undefined) (lines 100 and 271-273): the index found, -1 when there is
\* none, and -2 when the scan reads importance of a missing element first
\* and throws a TypeError
FindUnratedAbove(cs, prevIndex) ==
    LET S == {i \in 0..(Len(cs) - 1) : i > prevIndex /\ ~cs[i + 1].rated}
        first == CHOOSE i \in S : \A j \in S : i <= j
    IN  IF S = {} THEN 0 - 1
        ELSE IF cs[first + 1].shape = "hole" THEN 0 - 2
        ELSE first

\* what a render hands to the callbacks it creates (the dependency lists of
\* lines 192, 232, 248, 257, 280 and 293)
Closure(session, index) == [session |-> session, currentCueIndex |-> index]

\* lines 85-107: the hook's state once mounted with what localStorage held
Mounted(session) ==
    LET firstUnrated == FindUnratedAbove(session.cues, 0 - 1)
        index == IF session.exists /\ firstUnrated >= 0 THEN firstUnrated ELSE 0
    IN  /\ currentSession = session
        /\ currentCueIndex = index
        /\ error = "null"
        /\ rendered = Closure(session, index)

\* React renders the component again: the callbacks are created over the
\* state of that moment
Render ==
    /\ rendered # Closure(currentSession, currentCueIndex)
    /\ rendered' = Closure(currentSession, currentCueIndex)
    /\ UNCHANGED <<currentSession, currentCueIndex, error>>
    /\ UNCHANGED <<parseVars, hookVars, exportVars>>

\* the render that follows a handler before the next event is handled
RenderAfter == rendered' = Closure(currentSession', currentCueIndex')

\* lines 121-151
createSession(parsedCues, filename) ==
    /\ currentSession' =
          [exists |-> TRUE,
           originalFileName |-> IF filename = <<>> THEN Literal.unknownVtt ELSE filename,
           cues |-> parsedCues,
           annotations |-> <<>>,
           status |-> SessionState.INITIALIZED,
           exportedAt |-> FALSE]
    /\ currentCueIndex' = 0
    /\ error' = "null"
    /\ UNCHANGED <<parseVars, hookVars, exportVars>>

\* the session after the importance of cue index was replaced (lines
\* 165-189 and 206-229)
WithCue(session, index, cue) ==
    LET updatedCues == AssignAt(session.cues, index, cue)
        summary == summarizeSessionCompletion([session EXCEPT !.cues = updatedCues])
    IN  [session EXCEPT
            !.cues = updatedCues,
            !.status = IF summary.isSessionComplete THEN SessionState.COMPLETE ELSE SessionState.IN_PROGRESS,
            !.exportedAt = FALSE]

\* lines 155-163, 196-204 and 236-244: the test made on the session the
\* callback closed over; the call only sets the hook's error when it holds
IsRejectedIndex(index) ==
    ~rendered.session.exists \/ index < 0 \/ index >= Len(rendered.session.cues)

RejectionError ==
    IF ~rendered.session.exists THEN "No active annotation session" ELSE "Invalid cue index"

\* setCurrentSession(prevSession => ...) of lines 165-189 and 206-229 for
\* the cue's new rating.  [...prevSession.cues] turns an index without an
\* element into undefined, and summarizeSessionCompletion then reads
\* importance of undefined: the updater throws unless the assignment fills
\* that index.  A throwing updater takes the component down, and no step is
\* taken
SetImportance(index, rated, importance) ==
    IF IsRejectedIndex(index)
    THEN /\ error' = RejectionError
         /\ UNCHANGED currentSession
    ELSE /\ \A j \in 1..Len(currentSession.cues) :
                j # index + 1 => currentSession.cues[j].shape # "hole"
         /\ currentSession' =
               IF ~currentSession.exists THEN currentSession
               ELSE WithCue(currentSession, index,
                            [SpreadCueAt(currentSession.cues, index) EXCEPT
                                !.rated = rated, !.importance = importance])
         /\ error' = "null"

\* lines 154-192
updateCueImportance(index, importance) ==
    /\ SetImportance(index, TRUE, importance)
    /\ UNCHANGED currentCueIndex
    /\ UNCHANGED <<parseVars, hookVars, exportVars>>

\* lines 195-232
clearCueImportance(index) ==
    /\ SetImportance(index, FALSE, 0)
    /\ UNCHANGED currentCueIndex
    /\ UNCHANGED <<parseVars, hookVars, exportVars>>

\* lines 235-248
goToCue(index) ==
    /\ IF IsRejectedIndex(index)
       THEN error' = RejectionError /\ UNCHANGED currentCueIndex
       ELSE currentCueIndex' = index /\ error' = "null"
    /\ UNCHANGED currentSession
    /\ UNCHANGED <<parseVars, hookVars, exportVars>>

\* lines 251-257
nextCue ==
    /\ rendered.session.exists
    /\ LET Min(a, b) == IF a <= b THEN a ELSE b
       IN  currentCueIndex' = Min(currentCueIndex + 1, Len(rendered.session.cues) - 1)
    /\ UNCHANGED <<currentSession, error>>
    /\ UNCHANGED <<parseVars, hookVars, exportVars>>

\* lines 260-264
previousCue ==
    /\ currentCueIndex' = Max(currentCueIndex - 1, 0)
    /\ UNCHANGED <<currentSession, error>>
    /\ UNCHANGED <<parseVars, hookVars, exportVars>>

\* lines 267-280; a throwing updater takes the component down, and no step
\* is taken
nextUnratedCue ==
    /\ rendered.session.exists
    /\ LET nextUnrated == FindUnratedAbove(rendered.session.cues, currentCueIndex)
       IN  /\ nextUnrated # 0 - 2
           /\ currentCueIndex' = IF nextUnrated >= 0 THEN nextUnrated ELSE currentCueIndex
    /\ UNCHANGED <<currentSession, error>>
    /\ UNCHANGED <<parseVars, hookVars, exportVars>>

\* lines 283-293: the loop runs down from the index the callback closed
\* over; reading importance of a missing element throws out of the handler
\* before any state is set
previousUnratedCue ==
    /\ rendered.session.exists
    /\ LET cs == rendered.session.cues
           below == {i \in 0..(rendered.currentCueIndex - 1) :
                        i >= Len(cs) \/ ~cs[i + 1].rated}
           i == CHOOSE k \in below : \A j \in below : j <= k
       IN  currentCueIndex' =
              IF below = {} THEN currentCueIndex
              ELSE IF i >= Len(cs) \/ cs[i + 1].shape = "hole" THEN currentCueIndex
              ELSE i
    /\ UNCHANGED <<currentSession, error>>
    /\ UNCHANGED <<parseVars, hookVars, exportVars>>

\* lines 296-307
clearSession ==
    /\ currentSession' = NoSession
    /\ currentCueIndex' = 0
    /\ error' = "null"
    /\ UNCHANGED <<parseVars, hookVars, exportVars>>

\* useAnnotationBatch.batchUpdateImportance (lines 380-410): the session
\* returned for the session and the list of {index, importance} passed, an
\* update with an index outside the cues skipped
batchUpdateImportance(session, updates) ==
    LET G[k \in 0..Len(updates)] ==
            IF k = 0 THEN session.cues
            ELSE LET updatedCues == G[k - 1]
                     index == updates[k].index
                 IN  IF index >= 0 /\ index < Len(updatedCues)
                     THEN [updatedCues EXCEPT
                             ![index + 1] = [@ EXCEPT !.rated = TRUE,
                                                      !.importance = updates[k].importance]]
                     ELSE updatedCues
    IN  [session EXCEPT !.cues = G[Len(updates)]]

\* lines 309-320
markExported(session) ==
    IF ~session.exists THEN session
    ELSE [session EXCEPT !.status = SessionState.EXPORTED, !.exportedAt = TRUE]

(***************************************************************************)
(* The export control view model and the export pipeline                   *)
(***************************************************************************)
Label == [base |-> "Export annotations", preparing |-> "Preparing export..."]

NoTooltip == [text |-> "undefined", count |-> 0, noun |-> ""]

BlockedViewModel(tooltip) == [disabled |-> TRUE, label |-> Label.base, tooltip |-> tooltip]

\* the same function with the pending test moved to the front
PendingFirstViewModel(isSessionComplete, remainingCueCount, metadataReady, isPending) ==
    IF isPending
    THEN [disabled |-> TRUE, label |-> Label.preparing, tooltip |-> NoTooltip]
    ELSE IF ~isSessionComplete
    THEN BlockedViewModel([text |-> "Annotate N more to export", count |-> remainingCueCount,
                           noun |-> IF remainingCueCount = 1 THEN "cue" ELSE "cues"])
    ELSE IF ~metadataReady
    THEN BlockedViewModel([text |-> "Original file metadata missing", count |-> 0,
                           noun |-> ""])
    ELSE [disabled |-> FALSE, label |-> Label.base,
          tooltip |-> [text |-> "Download JSON + original VTT", count |-> 0, noun |-> ""]]

createExportControlViewModel(isSessionComplete, remainingCueCount, metadataReady, isPending) ==
    IF ~isSessionComplete
    THEN BlockedViewModel([text |-> "Annotate N more to export", count |-> remainingCueCount,
                           noun |-> IF remainingCueCount = 1 THEN "cue" ELSE "cues"])
    ELSE IF ~metadataReady
    THEN BlockedViewModel([text |-> "Original file metadata missing", count |-> 0,
                           noun |-> ""])
    ELSE IF isPending
    THEN [disabled |-> TRUE, label |-> Label.preparing, tooltip |-> NoTooltip]
    ELSE [disabled |-> FALSE, label |-> Label.base,
          tooltip |-> [text |-> "Download JSON + original VTT", count |-> 0, noun |-> ""]]

ValidImportance == {0, 1, 2, 3}

\* generateImportanceNotes; called only with a level of ValidImportance,
\* any other number throws
generateImportanceNotes(importance) ==
    CASE importance = 3 -> "Critical decision/commitment"
      [] importance = 2 -> "Important information/evidence"
      [] importance = 1 -> "Optional background context"
      [] importance = 0 -> "Noise/non-informative"

generateAnnotationId(index) == <<"A", index + 1>>

createAnnotationFromCue(cue, importance, index) ==
    [annotationId |-> generateAnnotationId(index),
     startMs |-> cue.startMs,
     endMs |-> cue.endMs,
     importance |-> importance,
     notes |-> generateImportanceNotes(importance)]

\* an id per cue, rated or not
AnnotationsCountingAllCues(session) ==
    LET cs == session.cues
        F[i \in 0..Len(cs)] ==
            IF i = 0 THEN <<>>
            ELSE IF cs[i].rated
            THEN Append(F[i - 1], createAnnotationFromCue(cs[i], cs[i].importance, i - 1))
            ELSE F[i - 1]
    IN  F[Len(cs)]

\* lines 71-84 when no cue makes createAnnotationFromCue throw: annotationIndex
\* is the number of annotations pushed so far
AnnotationsOf(session) ==
    LET cs == session.cues
        F[i \in 0..Len(cs)] ==
            IF i = 0 THEN <<>>
            ELSE LET pushed == F[i - 1]
                 IN  IF cs[i].rated
                     THEN Append(pushed,
                                 createAnnotationFromCue(cs[i], cs[i].importance,
                                                         Len(pushed)))
                     ELSE pushed
    IN  F[Len(cs)]

\* generateAnnotationsFromSession: throws at the first rated cue whose
\* importance generateImportanceNotes rejects
generateAnnotationsFromSession(session) ==
    IF \E i \in 1..Len(session.cues) :
            session.cues[i].rated /\ session.cues[i].importance \notin ValidImportance
    THEN [threw |-> TRUE, annotations |-> <<>>]
    ELSE [threw |-> FALSE, annotations |-> AnnotationsOf(session)]

\* exportAnnotations: a result, or the one wrapped error of line 62; zipOk
\* is whether JSZip builds the archive
exportAnnotations(session, zipOk) ==
    LET projected == generateAnnotationsFromSession(session)
    IN  IF projected.threw
        THEN [ok |-> FALSE, error |-> "Failed to export annotations: Invalid importance level",
              importanceAnnotations |-> <<>>]
        ELSE IF ~zipOk
        THEN [ok |-> FALSE, error |-> "Failed to export annotations: ZIP creation failed",
              importanceAnnotations |-> <<>>]
        ELSE [ok |-> TRUE, error |-> "null",
              importanceAnnotations |-> projected.annotations]

\* the two places App.tsx mounts ExportControls for the session
Controls == {"desktop", "mobile"}

NoRun == [active |-> FALSE, session |-> NoSession, outcome |-> "none"]

viewModel(c) ==
    createExportControlViewModel(cueMetrics.isSessionComplete, cueMetrics.remainingCueCount,
                                 cueMetrics.metadataReady, pending[c])

SessionAfterFailedExport(session) == markExported(session)

\* the session after onExport failed: markExported was not reached
SessionAfterFailure(session) == session

\* onExport up to the await (lines 57-63); the button is rendered only with
\* a session and reacts only when enabled
ClickExport(c) ==
    /\ currentSession.exists
    /\ ~viewModel(c).disabled
    /\ pending' = [pending EXCEPT ![c] = TRUE]
    /\ errorMessage' = [errorMessage EXCEPT ![c] = "null"]
    /\ successMessage' = [successMessage EXCEPT ![c] = FALSE]
    /\ exportRun' = [exportRun EXCEPT ![c] =
                        [active |-> TRUE, session |-> currentSession, outcome |-> "none"]]
    /\ UNCHANGED currentSession
    /\ UNCHANGED <<parseVars, hookVars, currentCueIndex, error, archive, codec, reading,
                   roundTrip>>

\* onExport after the await (lines 63-74): download, markExported and the
\* success message, or the error message; pending is cleared in both cases
ExportSettles(c, zipOk, downloadOk) ==
    /\ exportRun[c].active
    /\ LET result == exportAnnotations(exportRun[c].session, zipOk)
       IN  IF result.ok /\ downloadOk
           THEN /\ currentSession' = markExported(currentSession)
                /\ successMessage' = [successMessage EXCEPT ![c] = TRUE]
                /\ UNCHANGED errorMessage
                /\ exportRun' = [exportRun EXCEPT ![c] = [NoRun EXCEPT !.outcome = "exported"]]
           ELSE /\ currentSession' = SessionAfterFailure(currentSession)
                /\ errorMessage' = [errorMessage EXCEPT ![c] =
                                      IF result.ok THEN "Failed to download file"
                                      ELSE result.error]
                /\ successMessage' = [successMessage EXCEPT ![c] = FALSE]
                /\ exportRun' = [exportRun EXCEPT ![c] = [NoRun EXCEPT !.outcome = "failed"]]
    /\ pending' = [pending EXCEPT ![c] = FALSE]
    /\ UNCHANGED <<parseVars, hookVars, currentCueIndex, error, archive, codec, reading,
                   roundTrip>>

(***************************************************************************)
(* exportAnnotations as a function of the session: the payload, the text   *)
(* artifact, the archive entries and the archive name                      *)
(***************************************************************************)
\* a value of a session field typed string: a string, or what the runtime
\* can hold instead (undefined, null, a value of another type)
Str(text) == [kind |-> "string", text |-> text]

\* kind is "undefined", "null" or "number"
NonString(kind) == [kind |-> kind, text |-> <<>>]

\* String.prototype.toLowerCase on the characters of the model
toLowerCase(s) ==
    LET upper == <<"A", "B", "C", "D", "E", "F", "G", "H", "I", "J", "K", "L", "M",
                   "N", "O", "P", "Q", "R", "S", "T", "U", "V", "W", "X", "Y", "Z">>
        lower == <<"a", "b", "c", "d", "e", "f", "g", "h", "i", "j", "k", "l", "m",
                   "n", "o", "p", "q", "r", "s", "t", "u", "v", "w", "x", "y", "z">>
        lowerOf(c) ==
            IF \E k \in 1..Len(upper) : upper[k] = c
            THEN lower[CHOOSE k \in 1..Len(upper) : upper[k] = c]
            ELSE c
        F[i \in 0..Len(s)] == IF i = 0 THEN <<>> ELSE Append(F[i - 1], lowerOf(s[i]))
    IN  F[Len(s)]

\* String.prototype.lastIndexOf for one character, 1-based; 0 when absent
LastIndexOf(s, c) ==
    LET hits == {i \in 1..Len(s) : s[i] = c}
    IN  IF hits = {} THEN 0 ELSE CHOOSE i \in hits : \A j \in hits : j <= i

\* the value as it is, untrimmed and of whatever type
RawOptionalString(value) == value

sanitizeOptionalString(value) ==
    IF value.kind # "string" THEN Str(<<>>) ELSE Str(Trim(value.text))

deriveOriginalFilename(originalFileName) ==
    IF originalFileName.kind # "string"
    THEN Literal.originalVtt
    ELSE LET trimmed == Trim(originalFileName.text)
         IN  IF Len(trimmed) > 0 THEN trimmed ELSE Literal.originalVtt

\* the name as it is
KeepFilename(filename) == filename

\* the third branch replaces /\.[^/.]+$/, a dot followed by one or more
\* characters other than '/' and '.' up to the end
ensureVttExtension(filename) ==
    LET lower == toLowerCase(filename)
        dot == LastIndexOf(filename, ".")
        hasExtension ==
            /\ dot > 0
            /\ dot < Len(filename)
            /\ \A i \in (dot + 1)..Len(filename) : filename[i] # "/"
    IN  IF EndsWith(lower, Literal.vtt) THEN filename
        ELSE IF EndsWith(lower, Literal.txt)
        THEN SubSeq(filename, 1, Len(filename) - 4) \o Literal.vtt
        ELSE (IF hasExtension THEN SubSeq(filename, 1, dot - 1) ELSE filename)
             \o Literal.vtt

\* lastDot <= 0 in 0-based indices
removeExtension(filename) ==
    LET lastDot == LastIndexOf(filename, ".")
    IN  IF lastDot <= 1 THEN filename ELSE SubSeq(filename, 1, lastDot - 1)

\* /[^a-zA-Z0-9-_]+/g replaced by '-', then /^-+|-+$/g removed
sanitizeFilenameSegment(raw) ==
    LET Allowed == WordChars \cup {"-"}
        R[i \in 0..Len(raw)] ==
            IF i = 0 THEN <<>>
            ELSE IF raw[i] \in Allowed THEN Append(R[i - 1], raw[i])
            ELSE IF i > 1 /\ raw[i - 1] \notin Allowed THEN R[i - 1]
            ELSE Append(R[i - 1], "-")
        replaced == R[Len(raw)]
        kept == {i \in 1..Len(replaced) : replaced[i] # "-"}
        sanitized ==
            IF kept = {} THEN <<>>
            ELSE SubSeq(replaced,
                        CHOOSE i \in kept : \A j \in kept : i <= j,
                        CHOOSE i \in kept : \A j \in kept : j <= i)
    IN  IF Len(sanitized) > 0 THEN toLowerCase(sanitized) ELSE Literal.session

\* meetingId || removeExtension(originalFileName) || 'session'
deriveArchivePrefix(meetingId, originalFileName) ==
    LET preferred ==
            IF meetingId # <<>> THEN meetingId
            ELSE IF removeExtension(originalFileName) # <<>>
            THEN removeExtension(originalFileName)
            ELSE Literal.session
    IN  sanitizeFilenameSegment(preferred)

\* String(n) for an integer n >= 0
RECURSIVE NumberToString(_)
NumberToString(n) ==
    LET digit(d) == CHOOSE c \in Digits : DigitVal[c] = d
    IN  IF n < 10 THEN <<digit(n)>>
        ELSE NumberToString(n \div 10) \o <<digit(n % 10)>>

\* the fields written without padStart
FormatWithoutPadding(milliseconds) ==
    LET totalSeconds == milliseconds \div 1000
    IN  NumberToString(totalSeconds \div 3600) \o <<":">>
        \o NumberToString((totalSeconds % 3600) \div 60) \o <<":">>
        \o NumberToString(totalSeconds % 60) \o <<".">>
        \o NumberToString(milliseconds % 1000)

\* padStart(width, '0') of String(n); every field of NaN is NaN, written
\* "NaN"
formatVTTTime(milliseconds) ==
    LET PadStart(s, width) ==
            IF Len(s) >= width THEN s ELSE [i \in 1..(width - Len(s)) |-> "0"] \o s
        totalSeconds == milliseconds \div 1000
        ms == milliseconds % 1000
        hours == totalSeconds \div 3600
        minutes == (totalSeconds % 3600) \div 60
        seconds == totalSeconds % 60
    IN  IF IsNaN(milliseconds)
        THEN Literal.nan \o <<":">> \o Literal.nan \o <<":">> \o Literal.nan
             \o <<".">> \o Literal.nan
        ELSE PadStart(NumberToString(hours), 2) \o <<":">>
             \o PadStart(NumberToString(minutes), 2) \o <<":">>
             \o PadStart(NumberToString(seconds), 2) \o <<".">>
             \o PadStart(NumberToString(ms), 3)

\* exportToVTT: header, blank line, and per cue its number, its timing line,
\* the importance comment of a rated cue, its text line and a blank line
exportToVTT(cs, includeImportance) ==
    LET cueLines(i) ==
            <<NumberToString(i),
              formatVTTTime(cs[i].startMs) \o ARROW \o formatVTTTime(cs[i].endMs)>>
            \o (IF includeImportance /\ cs[i].rated
                THEN <<Literal.importanceLevel \o NumberToString(cs[i].importance)>>
                ELSE <<>>)
            \o <<IF cs[i].speaker # <<>>
                 THEN cs[i].speaker \o <<":", " ">> \o cs[i].text
                 ELSE cs[i].text,
                 <<>>>>
        L[i \in 0..Len(cs)] == IF i = 0 THEN <<WEBVTT, <<>>>> ELSE L[i - 1] \o cueLines(i)
    IN  Join(L[Len(cs)], <<"\n">>)

\* the text regenerated from the cues, whatever the session stores
RegeneratedVTT(session) == exportToVTT(session.cues, TRUE)

\* session.originalFileContent ?? exportToVTT(session.cues, true)
originalVTTOf(session) ==
    IF session.originalFileContent.kind \in {"undefined", "null"}
    THEN exportToVTT(session.cues, TRUE)
    ELSE session.originalFileContent.text

\* JSON.stringify of the payload: a key whose value is undefined is left out
JSONstringify(data) ==
    LET omitted == {k \in {"meetingId", "annotator"} : data[k].kind = "undefined"}
    IN  [k \in (DOMAIN data) \ omitted |-> data[k]]

\* the JSZip instance after zip.file was called for each file in turn: one
\* entry per name, a later file replacing an earlier one of the same name
createZipFile(files) ==
    [name \in {files[k].filename : k \in 1..Len(files)} |->
        files[CHOOSE k \in 1..Len(files) :
                /\ files[k].filename = name
                /\ \A j \in 1..Len(files) : files[j].filename = name => j <= k]]

\* no call of exportAnnotations, and a call that built nothing
NoArchive ==
    [pc |-> "idle", session |-> NoSession, ok |-> FALSE,
     result |-> [annotationJson |-> <<>>, originalVTT |-> <<>>, vttFilename |-> <<>>,
                 zip |-> <<>>, archivePrefix |-> <<>>]]

\* what one call of exportAnnotations builds on its way to the ExportResult
\* (lines 19-52); createdAt and the timestamp of the name are left out
ExportData(session) ==
    LET annotations == generateAnnotationsFromSession(session).annotations
        safeMeetingId == sanitizeOptionalString(session.meetingId)
        safeAnnotator == sanitizeOptionalString(session.annotator)
        safeOriginalFileName == deriveOriginalFilename(session.originalFileName)
        archivePrefix == deriveArchivePrefix(safeMeetingId.text, safeOriginalFileName)
        version == IF session.version > 0 THEN session.version ELSE 1
        annotationData ==
            [meetingId |-> safeMeetingId, annotator |-> safeAnnotator,
             version |-> version, importanceAnnotations |-> annotations]
        annotationJson == JSONstringify(annotationData)
        originalVTT == originalVTTOf(session)
        vttFilename == ensureVttExtension(safeOriginalFileName)
    IN  [annotationJson |-> annotationJson,
         originalVTT |-> originalVTT,
         vttFilename |-> vttFilename,
         zip |-> createZipFile(
                    <<[filename |-> Literal.annotationsJson, type |-> "application/json",
                       json |-> annotationJson, text |-> <<>>],
                      [filename |-> vttFilename, type |-> "text/vtt",
                       json |-> <<>>, text |-> originalVTT]>>),
         archivePrefix |-> archivePrefix]

\* the sessions exportAnnotations is called with: each string field absent,
\* null, of another type, blank, or a string; cues unrated, rated, rated
\* with a level generateImportanceNotes rejects
ArchiveSessions ==
    LET ArchiveCue(k, startMs, endMs, speaker, rated, importance) ==
            [id |-> k, startMs |-> startMs, endMs |-> endMs, text |-> CueText.hi,
             speaker |-> speaker, rated |-> rated, importance |-> importance]
    IN  [meetingId :
            {NonString("undefined"), NonString("null"), NonString("number"),
             Str(<<>>), Str(<<" ", " ">>),
             Str(<<" ", "Q", "3", " ", "S", "y", "n", "c", " ">>), Str(<<"!", "!">>)},
         annotator :
            {NonString("undefined"), NonString("null"), Str(<<" ", "a", "l", " ">>)},
         version : {0, 2},
         originalFileName :
            {NonString("undefined"), Str(<<>>), Str(<<" ", " ">>), Str(Literal.demoVtt),
             Str(<<"T", "a", "l", "k", ".", "T", "X", "T">>),
             Str(<<"T", "a", "l", "k", ".", "V", "T", "T">>),
             Str(<<"n", "o", "t", "e", "s", ".", "m", "d">>),
             Str(<<"R", "E", "A", "D", "M", "E">>),
             Str(<<".", "v", "t", "t">>),
             Str(Literal.annotationsJson)},
         originalFileContent :
            {NonString("undefined"), NonString("null"), Str(<<>>),
             Str(WEBVTT \o <<"\n", "\n">> \o CueText.hi)},
         cues :
            {<<>>,
             <<ArchiveCue(1, 0, 1500, <<"A", "l">>, FALSE, 0)>>,
             <<ArchiveCue(1, 0, 1500, <<"A", "l">>, TRUE, 2),
               ArchiveCue(2, 3723004, 3724000, <<>>, TRUE, 0)>>,
             <<ArchiveCue(1, 0, 1500, <<>>, TRUE, 4)>>}]

\* one call of exportAnnotations, to its return
ExportCall(zipOk) ==
    /\ archive.pc = "called"
    /\ archive' = [archive EXCEPT
                     !.pc = "returned",
                     !.ok = exportAnnotations(archive.session, zipOk).ok,
                     !.result = IF exportAnnotations(archive.session, zipOk).ok
                                THEN ExportData(archive.session)
                                ELSE NoArchive.result]
    /\ UNCHANGED <<parseVars, hookVars, currentSession, navVars>>
    /\ UNCHANGED <<pending, errorMessage, successMessage, exportRun, codec, reading,
                   roundTrip>>

(***************************************************************************)
(* The time codec: a millisecond count written by formatVTTTime and read   *)
(* back by parseTimeToMs                                                   *)
(***************************************************************************)
NoCodec == [pc |-> "idle", ms |-> 0, text |-> <<>>, decoded |-> 0, again |-> <<>>]

\* the text written for codec.ms, the count read back from it, and the text
\* written for that count
FormatAndParse ==
    /\ codec.pc = "given"
    /\ LET text == formatVTTTime(codec.ms)
           decoded == parseTimeToMs(text)
       IN  codec' = [codec EXCEPT
                        !.pc = "done",
                        !.text = text,
                        !.decoded = decoded,
                        !.again = IF IsNaN(decoded) THEN <<>> ELSE formatVTTTime(decoded)]
    /\ UNCHANGED <<parseVars, hookVars, currentSession, navVars>>
    /\ UNCHANGED <<pending, errorMessage, successMessage, exportRun, archive, reading,
                   roundTrip>>

(***************************************************************************)
(* summarizeSessionCompletion and exportAnnotations as readers of the      *)
(* session object they are passed                                          *)
(***************************************************************************)
NotReading ==
    [pc |-> "idle", given |-> NoSession, session |-> NoSession, first |-> NoSummary,
     second |-> NoSummary, exported |-> "none", totalCues |-> 0, ratedCues |-> 0,
     progressPercentage |-> 0, isSessionComplete |-> FALSE]

\* the session object after a call that assigns to none of its fields
AfterReadOnlyCall(session) == session

\* summarizeSessionCompletion called twice on the session object
Summarize ==
    /\ reading.pc = "given"
    /\ reading' = [reading EXCEPT
                     !.pc = "summarized",
                     !.first = summarizeSessionCompletion(reading.session),
                     !.second = summarizeSessionCompletion(
                                    AfterReadOnlyCall(reading.session)),
                     !.session = AfterReadOnlyCall(AfterReadOnlyCall(reading.session))]
    /\ UNCHANGED <<parseVars, hookVars, currentSession, navVars>>
    /\ UNCHANGED <<pending, errorMessage, successMessage, exportRun, archive, codec,
                   roundTrip>>

\* lines 57-58 and 76 for a session whose loop counted reading.ratedCues of
\* reading.totalCues cues
ReportProgress ==
    /\ reading.pc = "counted"
    /\ LET totalCues == reading.totalCues
           ratedCues == reading.ratedCues
           remainingCueCount == Max(totalCues - ratedCues, 0)
       IN  reading' = [reading EXCEPT
                          !.pc = "reported",
                          !.progressPercentage =
                              IF totalCues > 0 THEN RoundPercent(ratedCues, totalCues)
                              ELSE 0,
                          !.isSessionComplete = IsComplete(totalCues, remainingCueCount)]
    /\ UNCHANGED <<parseVars, hookVars, currentSession, navVars>>
    /\ UNCHANGED <<pending, errorMessage, successMessage, exportRun, archive, codec,
                   roundTrip>>

\* exportAnnotations called on the session object, to its result or its error
ExportRead(zipOk) ==
    /\ reading.pc \in {"given", "summarized"}
    /\ reading.exported = "none"
    /\ reading' = [reading EXCEPT
                     !.exported = IF exportAnnotations(reading.session, zipOk).ok
                                  THEN "ok" ELSE "failed",
                     !.session = AfterReadOnlyCall(reading.session)]
    /\ UNCHANGED <<parseVars, hookVars, currentSession, navVars>>
    /\ UNCHANGED <<pending, errorMessage, successMessage, exportRun, archive, codec,
                   roundTrip>>

(***************************************************************************)
(* Specifications: one per component, the other components at rest         *)
(***************************************************************************)
ParseAtRest ==
    /\ fileContent = <<>>
    /\ validationRules = VTT_VALIDATION_CONFIG
    /\ lines = <<>>
    /\ currentLine = 0
    /\ cueIndex = 0
    /\ cues = <<>>
    /\ errors = <<>>
    /\ warnings = <<>>
    /\ parsePc = "done"
    /\ parseResult = NoResult

NoRoundTrip == [stage |-> "first", cues |-> <<>>]

ExportAtRest ==
    /\ pending = [c \in Controls |-> FALSE]
    /\ errorMessage = [c \in Controls |-> "null"]
    /\ successMessage = [c \in Controls |-> FALSE]
    /\ exportRun = [c \in Controls |-> NoRun]
    /\ archive = NoArchive
    /\ codec = NoCodec
    /\ reading = NotReading
    /\ roundTrip = NoRoundTrip

\* the indices passed to updateCueImportance and clearCueImportance: every
\* cue index and one beyond each end
IndexInputs == (0 - 1)..MaxSessionCues

MaxExportCues == 1

\* the ratings given while exports run: a level and a number outside the levels
ExportRatings == {2, 4}

InitSpecParse == InitParse /\ InitHook /\ Mounted(NoSession) /\ ExportAtRest

SpecParse == InitSpecParse /\ [][NextParse]_vars

\* parseVTTFile runs to completion once called
FairSpecParse == SpecParse /\ WF_vars(NextParse)

InitSpecHook == ParseAtRest /\ InitHook /\ Mounted(NoSession) /\ ExportAtRest

SpecHook ==
    InitSpecHook
    /\ [][\/ \E file \in FileKinds : ParseFile(file)
          \/ \E op \in 1..MaxOps : ReadSettles(op)
          \/ \E op \in 1..MaxOps : ParseSettles(op)
          \/ \E op \in 1..MaxOps : ResultArrives(op)
          \/ \E op \in 1..MaxOps : RawContentArrives(op)
          \/ clearError
          \/ reset]_vars

\* the session after mount: none, or the one found in localStorage
InitSpecSession ==
    /\ ParseAtRest /\ InitHook /\ ExportAtRest
    /\ \E session \in {NoSession, SavedSession} : Mounted(session)

\* one handler call per event, a render after each
SpecSession ==
    InitSpecSession
    /\ [][\/ \E cs \in ParsedCueLists, name \in FileNameInputs :
                createSession(cs, name) /\ RenderAfter
          \/ \E i \in IndexInputs, v \in ImportanceInputs :
                updateCueImportance(i, v) /\ RenderAfter
          \/ \E i \in IndexInputs : clearCueImportance(i) /\ RenderAfter]_vars

SpecExport ==
    InitSpecSession
    /\ [][\/ \E cs \in {l \in ParsedCueLists : Len(l) <= MaxExportCues}, name \in FileNameInputs :
                createSession(cs, name) /\ RenderAfter
          \/ \E i \in IndexInputs, v \in ExportRatings :
                updateCueImportance(i, v) /\ RenderAfter
          \/ \E i \in IndexInputs : clearCueImportance(i) /\ RenderAfter
          \/ \E c \in Controls : ClickExport(c) /\ RenderAfter
          \/ \E c \in Controls, zipOk \in BOOLEAN, downloadOk \in BOOLEAN :
                ExportSettles(c, zipOk, downloadOk) /\ RenderAfter]_vars

\* the hook's callbacks called in any order, with renders at any moment in
\* between: several calls may come from the callbacks of one render
SpecHandlers ==
    InitSpecSession
    /\ [][\/ \E cs \in ParsedCueLists : createSession(cs, Literal.demoVtt) /\ UNCHANGED rendered
          \/ \E i \in IndexInputs, v \in ExportRatings :
                updateCueImportance(i, v) /\ UNCHANGED rendered
          \/ \E i \in IndexInputs : clearCueImportance(i) /\ UNCHANGED rendered
          \/ \E i \in IndexInputs : goToCue(i) /\ UNCHANGED rendered
          \/ nextCue /\ UNCHANGED rendered
          \/ previousCue /\ UNCHANGED rendered
          \/ nextUnratedCue /\ UNCHANGED rendered
          \/ previousUnratedCue /\ UNCHANGED rendered
          \/ clearSession /\ UNCHANGED rendered
          \/ Render]_vars

\* exportAnnotations called once with a session; the components at rest
InitSpecArchive ==
    /\ ParseAtRest /\ InitHook /\ Mounted(NoSession)
    /\ pending = [c \in Controls |-> FALSE]
    /\ errorMessage = [c \in Controls |-> "null"]
    /\ successMessage = [c \in Controls |-> FALSE]
    /\ exportRun = [c \in Controls |-> NoRun]
    /\ archive \in {[NoArchive EXCEPT !.pc = "called", !.session = session] :
                        session \in ArchiveSessions}
    /\ codec = NoCodec
    /\ reading = NotReading
    /\ roundTrip = NoRoundTrip

SpecArchive == InitSpecArchive /\ [][\E zipOk \in BOOLEAN : ExportCall(zipOk)]_vars

\* formatVTTTime called with a millisecond count of [0, 359999999], every
\* combination of small, one-digit, two-digit and largest hour, minute,
\* second and millisecond fields; the components at rest
InitSpecCodec ==
    /\ ParseAtRest /\ InitHook /\ Mounted(NoSession)
    /\ pending = [c \in Controls |-> FALSE]
    /\ errorMessage = [c \in Controls |-> "null"]
    /\ successMessage = [c \in Controls |-> FALSE]
    /\ exportRun = [c \in Controls |-> NoRun]
    /\ archive = NoArchive
    /\ LET TimeInputs ==
            {((h * 60 + m) * 60 + s) * 1000 + ms :
                h \in {0, 1, 9, 10, 99}, m \in {0, 9, 59}, s \in {0, 7, 59},
                ms \in {0, 5, 50, 100, 999}}
       IN  codec \in {[NoCodec EXCEPT !.pc = "given", !.ms = t] : t \in TimeInputs}
    /\ reading = NotReading
    /\ roundTrip = NoRoundTrip

SpecCodec == InitSpecCodec /\ [][FormatAndParse]_vars

\* the sessions read: each cue unrated or rated with one of ImportanceInputs,
\* the file name empty, blank or real; and the cue counts of longer
\* sessions: none, one, all but one and all of the cues rated
InitSpecSummary ==
    /\ ParseAtRest /\ InitHook /\ Mounted(NoSession)
    /\ pending = [c \in Controls |-> FALSE]
    /\ errorMessage = [c \in Controls |-> "null"]
    /\ successMessage = [c \in Controls |-> FALSE]
    /\ exportRun = [c \in Controls |-> NoRun]
    /\ archive = NoArchive
    /\ codec = NoCodec
    /\ roundTrip = NoRoundTrip
    /\ LET cueLists ==
               UNION {[1..n -> [rated : BOOLEAN, importance : ImportanceInputs]] :
                         n \in 0..MaxSessionCues}
           sessions ==
               {[SavedSession EXCEPT
                    !.originalFileName = name,
                    !.cues = [k \in DOMAIN rs |->
                                 [ParsedCue(k) EXCEPT !.rated = rs[k].rated,
                                                      !.importance = rs[k].importance]]] :
                   name \in FileNameInputs,
                   rs \in {l \in cueLists :
                              \A k \in DOMAIN l : ~l[k].rated => l[k].importance = 0}}
           totals == {1, 2, 3, 67, 199, 200, 201, 250, 1000, 9999, 10000}
       IN  reading \in
               {[NotReading EXCEPT !.pc = "given", !.given = session,
                                   !.session = session] : session \in sessions}
               \cup UNION {{[NotReading EXCEPT !.pc = "counted", !.totalCues = total,
                                                !.ratedCues = rated] :
                                rated \in {0, 1, total - 1, total}} : total \in totals}

SpecSummary ==
    InitSpecSummary
    /\ [][\/ Summarize
          \/ ReportProgress
          \/ \E zipOk \in BOOLEAN : ExportRead(zipOk)]_vars

\* parseVTTFile(exportToVTT(result.cues, false), validationRules) for the
\* result of a successful parse: the second call starts on the text the
\* serializer wrote for the cues of the first
Reparse ==
    /\ roundTrip.stage = "first"
    /\ parsePc = "done"
    /\ parseResult.success
    /\ roundTrip' = [stage |-> "second", cues |-> parseResult.cues]
    /\ fileContent' = exportToVTT(parseResult.cues, FALSE)
    /\ lines' = <<>>
    /\ currentLine' = 0
    /\ cueIndex' = 0
    /\ cues' = <<>>
    /\ errors' = <<>>
    /\ warnings' = <<>>
    /\ parsePc' = "entry"
    /\ parseResult' = NoResult
    /\ UNCHANGED <<validationRules, hookVars, currentSession, navVars>>
    /\ UNCHANGED <<pending, errorMessage, successMessage, exportRun, archive, codec, reading>>

SpecRoundTrip == InitSpecParse /\ [][NextParse \/ Reparse]_vars

(***************************************************************************)
(* Properties                                                              *)
(***************************************************************************)
Started(o) == ops[o].pc # "idle"

\* C1: a parseFile call that has been superseded (the counter has moved past
\* it) never changes the parser state again, whatever step it takes, and once
\* the latest call has finished the state shows that call's result.
C1_StaleResultSuppressed ==
    /\ [][\A o \in 1..MaxOps :
             (Started(o) /\ o # currentParseRef /\ ops'[o] # ops[o]) => state' = state]_vars
    /\ [](\A o \in 1..MaxOps :
             (o = currentParseRef /\ ops[o].pc = "done")
                => /\ ~ops[o].suppressed
                   /\ ~state.isLoading
                   /\ state.parseResult.present
                   /\ state.parseResult.op = o
                   /\ state.fileName = ops[o].file
                   /\ state.cues \in {0, o}
                   /\ state.rawContent \in {0, o})

\* a superseded call ran to its end after the call that superseded it had
\* finished, and the state shows the later call's result
C1_Witness ==
    \E a \in 1..MaxOps, b \in 1..MaxOps :
        /\ a < b
        /\ ops[a].pc = "done" /\ ops[a].suppressed /\ ops[a].file = "ok"
        /\ b = currentParseRef /\ ops[b].pc = "done"
        /\ state.parseResult.op = b

\* C2: every iteration of the line-scan loop advances the current line, so
\* the loop ends on every input.
C2_ScanLoopAdvances ==
    [][(parsePc = "scan" /\ parsePc' = "scan") => currentLine' > currentLine]_vars

\* C3: in every ParseResult, success holds iff no error is reported, cues
\* are present iff success, errors are present iff not success, and the
\* warnings have no part in it.
C3_ResultShape ==
    parsePc = "done" =>
        /\ parseResult.success <=> Len(parseResult.errors) = 0
        /\ parseResult.hasCues <=> parseResult.success
        /\ parseResult.hasErrors <=> ~parseResult.success
        /\ parseResult.hasErrors <=> Len(parseResult.errors) > 0
        /\ ~parseResult.hasCues => parseResult.cues = <<>>

\* a successful parse that carries warnings
C3_Witness ==
    parsePc = "done" /\ parseResult.success /\ parseResult.hasWarnings
    /\ Len(parseResult.cues) > 0

AllRated(session) == \A i \in 1..Len(session.cues) : session.cues[i].rated

UnratedCount(session) == Cardinality({i \in 1..Len(session.cues) : ~session.cues[i].rated})

isSessionComplete == currentSession.exists /\ cueMetrics.isSessionComplete

\* C4: isSessionComplete holds iff the session has a cue and every cue is
\* rated; rating the last unrated cue makes it true and a step that leaves a
\* complete session with an unrated cue makes it false.
C4_CompletionTracksRatings ==
    /\ [](isSessionComplete <=>
             (currentSession.exists /\ Len(currentSession.cues) > 0
              /\ AllRated(currentSession)))
    /\ [][(currentSession.exists /\ UnratedCount(currentSession) = 1
           /\ currentSession'.exists /\ UnratedCount(currentSession') = 0
           /\ Len(currentSession'.cues) = Len(currentSession.cues))
             => (~isSessionComplete /\ isSessionComplete')]_vars
    /\ [][(isSessionComplete /\ currentSession'.exists
           /\ UnratedCount(currentSession') > 0)
             => ~isSessionComplete']_vars

\* a session created here whose last unrated cue has been rated
C4_Witness ==
    /\ isSessionComplete
    /\ currentSession.status = SessionState.COMPLETE
    /\ currentSession.annotations = <<>>
    /\ Len(currentSession.cues) = MaxSessionCues

\* C5: the control is enabled iff the session is complete, the metadata is
\* ready and no export is pending; the explanation follows the priority
\* incomplete cues, missing metadata, pending.
C5_ExportControlPriority ==
    currentSession.exists =>
        \A c \in Controls :
            LET vm == viewModel(c)
                complete == cueMetrics.isSessionComplete
                ready == cueMetrics.metadataReady
            IN  /\ ~vm.disabled <=> (complete /\ ready /\ ~pending[c])
                /\ ~complete =>
                      /\ vm.tooltip.text = "Annotate N more to export"
                      /\ vm.tooltip.count = UnratedCount(currentSession)
                      /\ vm.tooltip.noun = (IF UnratedCount(currentSession) = 1
                                            THEN "cue" ELSE "cues")
                      /\ vm.label = Label.base
                /\ (complete /\ ~ready) =>
                      /\ vm.tooltip.text = "Original file metadata missing"
                      /\ vm.label = Label.base
                /\ vm.label = Label.preparing <=> (complete /\ ready /\ pending[c])

\* an export is pending while cues are unrated and the file name is blank
C5_Witness ==
    \E c \in Controls :
        /\ currentSession.exists
        /\ pending[c]
        /\ UnratedCount(currentSession) = 1
        /\ ~cueMetrics.metadataReady

\* C6: at most one export is in flight at any time.
C6_AtMostOneExportInFlight ==
    Cardinality({c \in Controls : exportRun[c].active}) <= 1

\* C7: when an export fails, an error message is shown, the pending flag is
\* cleared and the session is exactly what it was before the failure.
C7_FailedExportLeavesSession ==
    [][\A c \in Controls :
          (exportRun[c].active /\ ~exportRun'[c].active /\ exportRun'[c].outcome = "failed")
             => /\ currentSession' = currentSession
                /\ ~pending'[c]
                /\ errorMessage'[c] # "null"
                /\ ~successMessage'[c]]_vars

\* an export of a complete session failed at the download and the session
\* is still complete and not exported
C7_Witness ==
    \E c \in Controls :
        /\ exportRun[c].outcome = "failed"
        /\ errorMessage[c] = "Failed to download file"
        /\ ~pending[c]
        /\ currentSession.status = SessionState.COMPLETE
        /\ ~currentSession.exportedAt

\* C8: the cues of a successful parse are in non-decreasing startMs order
\* and cues with the same startMs keep their file order (the first part of
\* a cue id is its position among the cues emitted).
C8_SortedAndStable ==
    (parsePc = "done" /\ parseResult.success) =>
        \A i \in 1..Len(parseResult.cues), j \in 1..Len(parseResult.cues) :
            i < j =>
               /\ NumLe(parseResult.cues[i].startMs, parseResult.cues[j].startMs)
               /\ parseResult.cues[i].startMs = parseResult.cues[j].startMs
                     => parseResult.cues[i].id[1] < parseResult.cues[j].id[1]

\* a successful parse whose cue blocks were not in start order in the file
C8_Witness ==
    /\ parsePc = "done" /\ parseResult.success
    /\ \E i \in 1..Len(parseResult.cues), j \in 1..Len(parseResult.cues) :
          i < j /\ parseResult.cues[i].id[1] > parseResult.cues[j].id[1]

\* C9: every cue of a successful parse has an integer startMs >= 0 and an
\* integer endMs > startMs.
C9_CueTimesValid ==
    (parsePc = "done" /\ parseResult.success) =>
        \A i \in 1..Len(parseResult.cues) :
            /\ ~IsNaN(parseResult.cues[i].startMs)
            /\ ~IsNaN(parseResult.cues[i].endMs)
            /\ parseResult.cues[i].startMs >= 0
            /\ parseResult.cues[i].endMs > parseResult.cues[i].startMs

RatedIndices(session) == {i \in 1..Len(session.cues) : session.cues[i].rated}

\* the index of the k-th rated cue
KthRated(session, k) ==
    CHOOSE i \in RatedIndices(session) :
        Cardinality({j \in RatedIndices(session) : j < i}) = k - 1

\* C10: the projection of a session with K rated cues has K entries, the
\* k-th with id A<k> and the times and importance of the k-th rated cue, and
\* does not depend on the stored annotations.
C10_DenseAnnotationIds ==
    LET projected == generateAnnotationsFromSession(currentSession)
        K == Cardinality(RatedIndices(currentSession))
    IN  (currentSession.exists /\ ~projected.threw) =>
            /\ Len(projected.annotations) = K
            /\ \A k \in 1..K :
                  LET cue == currentSession.cues[KthRated(currentSession, k)]
                      a == projected.annotations[k]
                  IN  /\ a.annotationId = <<"A", k>>
                      /\ a.startMs = cue.startMs
                      /\ a.endMs = cue.endMs
                      /\ a.importance = cue.importance
            /\ \A stored \in {<<>>, SavedSession.annotations} :
                  generateAnnotationsFromSession(
                      [currentSession EXCEPT !.annotations = stored]) = projected

\* the first cue is unrated and a later one is rated
C10_Witness ==
    /\ currentSession.exists
    /\ Len(currentSession.cues) >= 2
    /\ ~currentSession.cues[1].rated
    /\ currentSession.cues[2].rated
    /\ ~generateAnnotationsFromSession(currentSession).threw

\* C11: a timing block whose normalized text is longer than the maxCueLength
\* of the rules passed adds a warning only: the step that records the length
\* warning also emits the cue and records no error.
C11_LongCueOnlyWarns ==
    [][(Len(warnings') > Len(warnings) /\ warnings'[Len(warnings')].kind = "length")
          => (Len(cues') = Len(cues) + 1 /\ errors' = errors)]_vars

\* a line written as a timing pair: two parts around ' --> ', each starting
\* with a digit
IsTimingPairLine(line) ==
    LET parts == SplitOn(line, ARROW)
    IN  /\ Len(parts) = 2
        /\ \A k \in 1..2 : parts[k] # <<>> /\ parts[k][1] \in Digits

HasErrorAt(type, lineNumber) ==
    \E k \in 1..Len(errors) : errors[k].type = type /\ errors[k].lineNumber = lineNumber

\* C12: when the parse has ended, every timing-pair line whose timestamp
\* text is malformed (the timing pattern does not accept it) has an
\* INVALID_TIMESTAMP error carrying its line number.
C12_MalformedTimingReported ==
    (parsePc = "done" /\ lines # <<>>) =>
        \A i \in 1..(Len(lines) - 1) :
            (IsTimingPairLine(LineAt(i)) /\ ~timingMatch(LineAt(i)))
                => HasErrorAt("INVALID_TIMESTAMP", i + 1)

\* C13: a parse that ended with no error other than the INVALID_TIMESTAMP
\* errors of timing lines with start >= end, and with at least minCues (and
\* at least one) valid cues, returns success with those cues.
C13_RejectedTimingDoesNotFail ==
    (/\ parsePc = "done"
     /\ \A k \in 1..Len(errors) : errors[k].type = "INVALID_TIMESTAMP"
     /\ Len(cues) >= 1
     /\ Len(cues) >= validationRules.minCues)
        => (parseResult.success /\ parseResult.cues = cues)

\* the first non-empty line of the input (1-based index into lines)
FirstNonEmpty == CHOOSE i \in 1..Len(lines) :
                    lines[i] # <<>> /\ \A j \in 1..(i - 1) : lines[j] = <<>>

\* C14: once the header check has run, the INVALID_FORMAT header error (line
\* number 1) is recorded iff the first non-empty line does not start with
\* rules.requiredHeader.
C14_HeaderOnFirstNonEmptyLine ==
    (parsePc \in {"scan", "done"} /\ lines # <<>>) =>
        (HasErrorAt("INVALID_FORMAT", 1)
            <=> ~StartsWith(lines[FirstNonEmpty], validationRules.requiredHeader))

\* C15: the step that emits a cue consumes, as the cue's text lines (the
\* lines between the timing line and the line the scan goes on with), no
\* line that starts with NOTE.
C15_NoteNeverCueText ==
    [][(parsePc = "scan" /\ Len(cues') = Len(cues) + 1)
          => \A i \in (currentLine + 1)..(currentLine' - 1) :
                 ~StartsWith(LineAt(i), Literal.note)]_vars

\* C16: in a successful result the overlap warnings are exactly the pairs of
\* cues adjacent in the returned list with previous.endMs > next.startMs.
C16_OverlapOnSortedList ==
    (parsePc = "done" /\ parseResult.success) =>
        LET cs == parseResult.cues
            ws == parseResult.warnings
        IN  {{ws[k].a, ws[k].b} : k \in {n \in 1..Len(ws) : ws[n].kind = "overlap"}}
            = {{cs[i].id, cs[i + 1].id} :
                  i \in {n \in 1..(Len(cs) - 1) : NumGt(cs[n].endMs, cs[n + 1].startMs)}}

\* a session field that is absent or blank: not a string, or a string of
\* whitespace only
IsBlankField(value) == value.kind # "string" \/ Trim(value.text) = <<>>

\* C17: the archive name prefix is the sanitized meetingId when that is
\* non-empty, else the sanitized original file name without its extension
\* when that is non-empty, else 'session'; a session whose meetingId and
\* originalFileName are both blank or absent gets the prefix 'session'
C17_PrefixCascade ==
    (archive.pc = "returned" /\ archive.ok
        /\ IsBlankField(archive.session.meetingId)
        /\ IsBlankField(archive.session.originalFileName))
    => archive.result.archivePrefix = Literal.session

C17_Witness ==
    /\ archive.pc = "returned" /\ archive.ok
    /\ archive.session.meetingId = NonString("undefined")
    /\ archive.session.originalFileName = Str(<<" ", " ">>)
    /\ archive.result.archivePrefix = <<"o", "r", "i", "g", "i", "n", "a", "l">>

\* the name ensureVttExtension is given
SafeOriginalFileName == deriveOriginalFilename(archive.session.originalFileName)

\* C18: the archive holds exactly two distinct entries, 'annotations.json'
\* and one text entry; the text entry is named by the extension rule (the
\* original name kept if it ends in .vtt, .txt replaced by .vtt, otherwise
\* the last extension stripped and .vtt appended), where "ends in" ignores
\* the case of the letters; its name ends in .vtt up to case and is never
\* 'annotations.json'
C18_TwoDistinctEntries ==
    (archive.pc = "returned" /\ archive.ok) =>
        LET n == SafeOriginalFileName
            v == archive.result.vttFilename
            zip == archive.result.zip
            dot == LastIndexOf(n, ".")
        IN  /\ DOMAIN zip = {Literal.annotationsJson, v}
            /\ Cardinality(DOMAIN zip) = 2
            /\ zip[Literal.annotationsJson].type = "application/json"
            /\ zip[v].type = "text/vtt"
            /\ EndsWith(toLowerCase(v), Literal.vtt)
            /\ v = IF EndsWith(toLowerCase(n), Literal.vtt) THEN n
                   ELSE IF EndsWith(toLowerCase(n), Literal.txt)
                   THEN SubSeq(n, 1, Len(n) - Len(Literal.txt)) \o Literal.vtt
                   ELSE IF dot > 0 /\ dot < Len(n)
                   THEN SubSeq(n, 1, dot - 1) \o Literal.vtt
                   ELSE n \o Literal.vtt

C18_Witness ==
    /\ archive.pc = "returned" /\ archive.ok
    /\ archive.session.originalFileName = Str(Literal.annotationsJson)
    /\ Cardinality(DOMAIN archive.result.zip) = 2

\* C18 as stated: the name of the text entry ends in the characters .vtt
C18_TextNameEndsInVtt ==
    (archive.pc = "returned" /\ archive.ok)
    => EndsWith(archive.result.vttFilename, Literal.vtt)

C20_OptionalStringsPresent ==
    (archive.pc = "returned" /\ archive.ok) =>
        \A key \in {"meetingId", "annotator"} :
            LET json == archive.result.annotationJson
                field == archive.session[key]
            IN  /\ key \in DOMAIN json
                /\ json[key].kind = "string"
                /\ json[key].text =
                      IF field.kind = "string" THEN Trim(field.text) ELSE <<>>
                /\ IsBlankField(field) => json[key].text = <<>>

C20_Witness ==
    /\ archive.pc = "returned" /\ archive.ok
    /\ archive.session.meetingId = NonString("null")
    /\ archive.session.annotator = Str(<<" ", "a", "l", " ">>)
    /\ archive.result.annotationJson.meetingId = Str(<<>>)
    /\ archive.result.annotationJson.annotator = Str(<<"a", "l">>)

\* C21: for a millisecond count m of [0, 359999999], decoding the
\* HH:MM:SS.mmm text the formatter writes for m gives m back, and formatting
\* the decoded count gives the same text again; the text has two digits per
\* field and three for the milliseconds
C21_TimestampRoundTrip ==
    codec.pc = "done" =>
        /\ codec.ms \in 0..359999999
        /\ Len(codec.text) = 12
        /\ codec.decoded = codec.ms
        /\ codec.again = codec.text

C21_Witness ==
    /\ codec.pc = "done"
    /\ codec.ms = 359999999
    /\ codec.text = <<"9", "9", ":", "5", "9", ":", "5", "9", ".", "9", "9", "9">>
    /\ codec.decoded = 359999999

\* C30: for a session of 1 to 10000 cues the reported progressPercentage is
\* 100 exactly when isSessionComplete is true; a session with an unrated cue
\* never reports 100 percent
C30_FullPercentOnlyWhenComplete ==
    (reading.pc = "reported" /\ reading.totalCues \in 1..10000)
    => (reading.progressPercentage = 100 <=> reading.isSessionComplete)

C30_Witness ==
    /\ reading.pc = "reported"
    /\ reading.totalCues = 250
    /\ reading.ratedCues = 249
    /\ reading.progressPercentage = 100
    /\ ~reading.isSessionComplete

\* what C23 says of the summary of the session read
SummaryPartitions ==
    LET s == reading.first
        cs == reading.given.cues
        r == s.remainingCueIndices
    IN  /\ s.totalCues = Len(cs)
        /\ s.ratedCues + s.remainingCueCount = s.totalCues
        /\ Len(r) = s.remainingCueCount
        /\ {r[k] : k \in 1..Len(r)} = {i - 1 : i \in {j \in 1..Len(cs) : ~cs[j].rated}}
        /\ \A k \in 1..(Len(r) - 1) : r[k] < r[k + 1]
        /\ s.importanceLevels.noise + s.importanceLevels.optional
              + s.importanceLevels.important + s.importanceLevels.critical
              = s.ratedCues
        /\ s.metadataReady
              <=> \E i \in 1..Len(reading.given.originalFileName) :
                     reading.given.originalFileName[i] \notin WS

\* C23: for every session whose ratings are among the levels 0, 1, 2, 3,
\* summarizeSessionCompletion returns ratedCues + remainingCueCount =
\* totalCues, remainingCueIndices is the ascending list of the indices of
\* the cues without importance and has remainingCueCount elements, the four
\* per-level counts sum to ratedCues, and metadataReady is whether
\* originalFileName is non-blank, whatever the ratings
C23_SummaryPartition ==
    (/\ reading.pc = "summarized"
     /\ \A i \in 1..Len(reading.given.cues) :
            reading.given.cues[i].rated
            => reading.given.cues[i].importance \in ValidImportance)
    => SummaryPartitions

C23_Witness ==
    /\ reading.pc = "summarized"
    /\ Len(reading.given.cues) = 2
    /\ reading.given.cues[1].rated /\ reading.given.cues[1].importance = 0
    /\ ~reading.given.cues[2].rated
    /\ reading.given.originalFileName = <<" ", " ">>
    /\ reading.first.remainingCueIndices = <<1>>
    /\ reading.first.importanceLevels.noise = 1
    /\ ~reading.first.metadataReady

\* C23 as stated, for every session
C23_SummaryPartitionOfAnySession == reading.pc = "summarized" => SummaryPartitions

ImportanceInRange(session) ==
    \A i \in 1..Len(session.cues) :
        session.cues[i].rated => session.cues[i].importance \in ValidImportance

\* C22: in every session state reached by createSession, updateCueImportance,
\* clearCueImportance and batchUpdateImportance called with arbitrary
\* numbers, the importance of each cue is absent or one of 0, 1, 2, 3
C22_ImportanceInRange ==
    /\ ImportanceInRange(currentSession)
    /\ \A index \in IndexInputs, importance \in ImportanceInputs :
          ImportanceInRange(batchUpdateImportance(
              currentSession, <<[index |-> index, importance |-> importance]>>))

\* C25: when an export settles and marks the session exported, every cue of
\* the session is rated and the cues are those of the snapshot the export
\* packaged: no updateCueImportance or clearCueImportance made while the
\* export was pending leaves exportedAt set on a session that differs from
\* what was exported
C25_ExportedSessionIsSnapshot ==
    [][\A c \in Controls :
          (exportRun[c].active /\ exportRun'[c].outcome = "exported"
              /\ currentSession'.exportedAt)
          => /\ currentSession'.cues = exportRun[c].session.cues
             /\ \A i \in 1..Len(currentSession'.cues) : currentSession'.cues[i].rated]_vars



\* a parseFile call that has started and whose continuation has not finished
Unresolved(o) == ops[o].pc \in {"reading", "parsing", "resolved", "awaitRaw"}

\* C29: isLoading is true exactly while the most recently requested parse is
\* unresolved and no reset() has happened since; it turns true only through a
\* new parseFile, whenever superseded parses resolve; and once reset() is the
\* latest request, a step of a parse still in flight leaves cues, error and
\* parseResult as reset() left them.
C29_LoadingTracksLatestParse ==
    /\ [](state.isLoading <=> (currentParseRef \in 1..MaxOps /\ Unresolved(currentParseRef)))
    /\ [][(~state.isLoading /\ state'.isLoading)
             => (currentParseRef' = currentParseRef + 1
                 /\ ops'[currentParseRef'].pc \in {"reading", "resolved"})]_vars
    /\ [][\A o \in 1..MaxOps :
             (currentParseRef \in 1..MaxOps /\ ops[currentParseRef].pc = "idle"
              /\ Started(o) /\ ops'[o] # ops[o])
                => /\ state'.cues = 0 /\ state'.error = "null"
                   /\ ~state'.parseResult.present /\ ~state'.isLoading]_vars

\* reset() was called while a parse of a good file was in flight; that parse
\* then ran to its end, and the state is still the one reset() left
C29_Witness ==
    \E o \in 1..MaxOps :
        /\ o < currentParseRef /\ ops[currentParseRef].pc = "idle"
        /\ ops[o].pc = "done" /\ ops[o].suppressed /\ ops[o].file = "ok"
        /\ state = InitialParserState


\* the unrated indices of the session above the current index
UnratedAbove == {i \in 0..(Len(currentSession.cues) - 1) :
                    i > currentCueIndex /\ ~currentSession.cues[i + 1].rated}

\* C28: after any sequence of createSession, goToCue, nextCue, previousCue,
\* nextUnratedCue, previousUnratedCue and clearSession, currentCueIndex is
\* never negative and, while a session exists, is an index of one of its cues
\* (0 when it has none); and nextUnratedCue moves to the smallest unrated
\* index above the current one, or leaves the index where it is when there is
\* none.
C28_CueIndexValid ==
    /\ [](/\ currentCueIndex >= 0
          /\ currentSession.exists =>
                IF Len(currentSession.cues) = 0 THEN currentCueIndex = 0
                ELSE currentCueIndex < Len(currentSession.cues))
    /\ [][(nextUnratedCue /\ UNCHANGED rendered)
             => currentCueIndex' =
                   IF UnratedAbove = {} THEN currentCueIndex
                   ELSE CHOOSE i \in UnratedAbove : \A j \in UnratedAbove : i <= j]_vars


\* what a step may change in the session when it sets or clears the
\* importance of the cue at index: nothing but that cue's rating, the status
\* and exportedAt
OnlyImportanceOfCueChanges(index) ==
    LET before == currentSession.cues
        after == currentSession'.cues
    IN  /\ currentSession'.exists = currentSession.exists
        /\ currentSession'.originalFileName = currentSession.originalFileName
        /\ currentSession'.annotations = currentSession.annotations
        /\ Len(after) = Len(before)
        /\ \A k \in 1..Len(before) :
              IF k = index + 1
              THEN after[k] = [before[k] EXCEPT !.rated = after[k].rated,
                                                !.importance = after[k].importance]
              ELSE after[k] = before[k]

\* C26: updateCueImportance(i, v) and clearCueImportance(i) change only the
\* importance of cue i (and status and exportedAt): the number and order of
\* the cues, every other cue, and the id, times, text and speaker of cue i
\* stay; a call made with no session or with an index outside the cues leaves
\* the session unchanged and records an error.  This is stated for every
\* interleaving with createSession and clearSession, the index being
\* validated against the session of the last render and the update applied to
\* the current one.
C26_OnlyImportanceChanges ==
    [][\A i \in IndexInputs :
          (((\E v \in ExportRatings : updateCueImportance(i, v)) \/ clearCueImportance(i))
           /\ UNCHANGED rendered)
             => /\ OnlyImportanceOfCueChanges(i)
                /\ IsRejectedIndex(i)
                      => (currentSession' = currentSession /\ error' # "null")]_vars


\* what the round trip compares of a cue
CueContent(cue) == [startMs |-> cue.startMs, endMs |-> cue.endMs,
                    hasSpeaker |-> cue.hasSpeaker, speaker |-> cue.speaker,
                    text |-> cue.text]

\* C27: for the cues of a successful parse, parsing exportToVTT(cues, false)
\* succeeds and returns as many cues, in the same order, with the same
\* startMs, endMs, speaker and text.
C27_SerializerParserRoundTrip ==
    (roundTrip.stage = "second" /\ parsePc = "done")
        => /\ parseResult.success
           /\ Len(parseResult.cues) = Len(roundTrip.cues)
           /\ \A i \in 1..Len(roundTrip.cues) :
                 CueContent(parseResult.cues[i]) = CueContent(roundTrip.cues[i])

==============================================================================
